---- MODULE Spec2Model ----
(***************************************************************************)
(* Empires Risen: the deterministic simulation core.                       *)
(*                                                                         *)
(* The Entity Store (EntityManager), the Combat Resolver (CombatSystem),   *)
(* the command executor and the tick loop (Game) as state machines.        *)
(*                                                                         *)
(* World coordinates are modelled by their integer part: the sessions       *)
(* below place their entities on integer points, and no unit of them        *)
(* moves by a fraction of a tile.                                           *)
(* A JavaScript Map is modelled as a TLA+ function whose DOMAIN is the set *)
(* of keys; an absent (undefined, null) value is NoId, None or Absent.     *)
(***************************************************************************)
EXTENDS Integers, Sequences, FiniteSets, TLC

VARIABLES
    em,         \* EntityManager: every component table and the spatial grid
    players,    \* Game.state.players: player id -> state
    game,       \* Game: tick, phase, command queue, position in the loop
    combat,     \* CombatSystem.projectiles and the pending setTimeout callbacks
    twin,       \* the same session run a second time (its store, players and combat)
    hist        \* history of calls, for stating the claims (not program state)

vars == <<em, players, game, combat, twin, hist>>

\* null / undefined: an absent id is 0 (no entity ever has id 0, and the code tests ids by
\* truthiness), an absent string is "none", and any other optional value is a sequence
\* that is empty (absent) or holds the value
NoId == 0

None == "none"

Absent == << >>

Some(v) == <<v>>

\* ---------------------------------------------------------------------
\* Bounds of the model
\* ---------------------------------------------------------------------
MaxEntities == 2        \* ids a session of the store model hands out

\* ---------------------------------------------------------------------
\* Small helpers on functions and sequences
\* ---------------------------------------------------------------------
Drop(f, k) == [j \in DOMAIN f \ {k} |-> f[j]]

Put(f, k, v) == [j \in DOMAIN f \cup {k} |-> IF j = k THEN v ELSE f[j]]

Max(a, b) == IF a >= b THEN a ELSE b

Min(a, b) == IF a <= b THEN a ELSE b

\* Array.prototype.indexOf: 1-based index of the first occurrence, 0 if none
IndexOf(s, x) ==
    IF \E i \in 1..Len(s) : s[i] = x
    THEN CHOOSE i \in 1..Len(s) : s[i] = x /\ \A j \in 1..(i - 1) : s[j] # x
    ELSE 0

\* Array.prototype.splice(idx, 1)
SpliceOut(s, i) == [j \in 1..(Len(s) - 1) |-> IF j < i THEN s[j] ELSE s[j + 1]]

Count(s, x) == Cardinality({i \in 1..Len(s) : s[i] = x})

\* ---------------------------------------------------------------------
\* Static data records (UnitStats / BuildingStats of shared/src/types.ts).
\* The data tables themselves are inputs: the model draws the records from
\* small sets.
\* ---------------------------------------------------------------------
Owners == {1, 2}

\* UNITS[unitId] of @shared/data/units: sample records with the fields of UnitStats.
\* bonusDamage maps a target category to the extra damage against it.  trainTime is
\* given in the steps by which processTrainingQueue raises an item's progress, speed in
\* tiles per second and lineOfSight in tiles.
NoBonus == [c \in {} |-> 0]

UNITS ==
    [villager |-> [id |-> "villager", category |-> "civilian", hp |-> 2, attack |-> 1,
                   meleeArmor |-> 0, pierceArmor |-> 0, range |-> 0, attackSpeed |-> 2,
                   trainTime |-> 2, populationCost |-> 1, bonusDamage |-> NoBonus,
                   cost |-> [food |-> 1], lineOfSight |-> 1, speed |-> 4],
     militia  |-> [id |-> "militia", category |-> "infantry", hp |-> 3, attack |-> 2,
                   meleeArmor |-> 1, pierceArmor |-> 0, range |-> 0, attackSpeed |-> 2,
                   trainTime |-> 1, populationCost |-> 1, bonusDamage |-> NoBonus,
                   cost |-> [food |-> 1], lineOfSight |-> 1, speed |-> 4],
     archer   |-> [id |-> "archer", category |-> "archer", hp |-> 2, attack |-> 2,
                   meleeArmor |-> 0, pierceArmor |-> 0, range |-> 2, attackSpeed |-> 2,
                   trainTime |-> 3, populationCost |-> 1, bonusDamage |-> NoBonus,
                   cost |-> [food |-> 1, gold |-> 1], lineOfSight |-> 2, speed |-> 4]]

\* BUILDINGS[buildingId] of @shared/data/buildings: sample records with the fields of
\* BuildingStats; buildTime is in seconds
BUILDINGS ==
    [house   |-> [id |-> "house", hp |-> 20, meleeArmor |-> 0, pierceArmor |-> 1,
                  size |-> [x |-> 2, y |-> 2], trains |-> {}, researches |-> {},
                  garrisonCapacity |-> 0, populationProvided |-> 5,
                  cost |-> [wood |-> 1], buildTime |-> 1],
     barracks |-> [id |-> "barracks", hp |-> 30, meleeArmor |-> 1, pierceArmor |-> 2,
                  size |-> [x |-> 3, y |-> 3], trains |-> {"militia"}, researches |-> {"forging"},
                  garrisonCapacity |-> 1, populationProvided |-> 0,
                  cost |-> [wood |-> 2], buildTime |-> 2],
     townCenter |-> [id |-> "townCenter", hp |-> 40, meleeArmor |-> 1, pierceArmor |-> 2,
                  size |-> [x |-> 2, y |-> 2], trains |-> {"villager", "militia"},
                  researches |-> {}, garrisonCapacity |-> 1, populationProvided |-> 2,
                  cost |-> [wood |-> 3, stone |-> 1], buildTime |-> 2]]

\* buildProgress is counted in the steps updateBuilding adds, buildRate = 1 / (buildTime
\* * 20) each: a building is at progress 1 after BuildSteps(data) of them
BuildSteps(data) == data.buildTime * 20

\* ---------------------------------------------------------------------
\* EntityManager
\* ---------------------------------------------------------------------
CELL_SIZE == 4

\* EntityManager.init(): all tables empty, nextEntityId = 1
EmInit ==
    [nextEntityId |-> 1,
     entities     |-> << >>,
     positions    |-> << >>,
     health       |-> << >>,
     units        |-> << >>,
     buildings    |-> << >>,
     resources    |-> << >>,
     spatialGrid  |-> << >>]

\* the key `${cx},${cy}` of the cell holding world point (wx, wy)
CellKey(wx, wy) == <<wx \div CELL_SIZE, wy \div CELL_SIZE>>

addToSpatialGrid(grid, id, wx, wy) ==
    LET key == CellKey(wx, wy) IN
    IF key \in DOMAIN grid
    THEN [grid EXCEPT ![key] = Append(@, id)]
    ELSE Put(grid, key, <<id>>)

removeFromSpatialGrid(grid, id, wx, wy) ==
    LET key == CellKey(wx, wy) IN
    IF key \notin DOMAIN grid THEN grid
    ELSE LET idx  == IndexOf(grid[key], id)
             cell == IF idx > 0 THEN SpliceOut(grid[key], idx) ELSE grid[key]
         IN  IF Len(cell) = 0 THEN Drop(grid, key) ELSE [grid EXCEPT ![key] = cell]

\* the footprint loop `for dy < size.y, for dx < size.x`, as the offsets in loop order
RECURSIVE FootprintFrom(_, _, _)
FootprintFrom(size, dx, dy) ==
    IF dy >= size.y THEN << >>
    ELSE IF dx >= size.x THEN FootprintFrom(size, 0, dy + 1)
    ELSE <<[dx |-> dx, dy |-> dy]>> \o FootprintFrom(size, dx + 1, dy)

Footprint(size) == FootprintFrom(size, 0, 0)

RECURSIVE AddFootprint(_, _, _, _, _)
AddFootprint(grid, id, x, y, offs) ==
    IF offs = << >> THEN grid
    ELSE AddFootprint(addToSpatialGrid(grid, id, x + Head(offs).dx, y + Head(offs).dy),
                      id, x, y, Tail(offs))

RECURSIVE RemoveFootprint(_, _, _, _, _)
RemoveFootprint(grid, id, x, y, offs) ==
    IF offs = << >> THEN grid
    ELSE RemoveFootprint(removeFromSpatialGrid(grid, id, x + Head(offs).dx, y + Head(offs).dy),
                         id, x, y, Tail(offs))

NewUnitComponent(data) ==
    [data |-> data, state |-> "idle", targetId |-> NoId, targetPos |-> Absent,
     path |-> << >>, pathIndex |-> 0, attackCooldown |-> 0, gatherCooldown |-> 0,
     carryAmount |-> 0, carryType |-> None, garrisonedIn |-> NoId,
     patrolPoints |-> << >>, patrolIndex |-> 0]

createUnit(e, data, owner, x, y) ==
    LET id == e.nextEntityId IN
    [e EXCEPT !.nextEntityId = id + 1,
              !.entities     = Put(@, id, [id |-> id, owner |-> owner, type |-> "unit"]),
              !.positions    = Put(@, id, [x |-> x, y |-> y, prevX |-> x, prevY |-> y]),
              !.health       = Put(@, id, [hp |-> data.hp, maxHp |-> data.hp]),
              !.units        = Put(@, id, NewUnitComponent(data)),
              !.spatialGrid  = addToSpatialGrid(@, id, x, y)]

createBuilding(e, data, owner, x, y, complete) ==
    LET id == e.nextEntityId IN
    [e EXCEPT !.nextEntityId = id + 1,
              !.entities     = Put(@, id, [id |-> id, owner |-> owner, type |-> "building"]),
              !.positions    = Put(@, id, [x |-> x, y |-> y, prevX |-> x, prevY |-> y]),
              !.health       = Put(@, id, [hp |-> IF complete THEN data.hp ELSE data.hp \div 10,
                                           maxHp |-> data.hp]),
              !.buildings    = Put(@, id, [data |-> data,
                                           buildProgress |-> IF complete THEN BuildSteps(data) ELSE 0,
                                           isComplete |-> complete,
                                           trainingQueue |-> << >>,
                                           researchQueue |-> << >>,
                                           rallyPoint |-> Absent,
                                           garrisonedUnits |-> << >>,
                                           farmFoodRemaining |-> IF data.id = "farm" THEN 175 ELSE 0]),
              !.spatialGrid  = AddFootprint(@, id, x, y, Footprint(data.size))]

createResource(e, resourceType, amount, x, y) ==
    LET id == e.nextEntityId IN
    [e EXCEPT !.nextEntityId = id + 1,
              !.entities     = Put(@, id, [id |-> id, owner |-> -1, type |-> "resource"]),
              !.positions    = Put(@, id, [x |-> x, y |-> y, prevX |-> x, prevY |-> y]),
              !.resources    = Put(@, id, [resourceType |-> resourceType, amount |-> amount]),
              !.spatialGrid  = addToSpatialGrid(@, id, x, y)]

\* removeEntity that frees the id for the next create
removeEntity_recycle(e, id) ==
    LET grid == IF id \notin DOMAIN e.positions THEN e.spatialGrid
                ELSE LET pos == e.positions[id] IN
                     IF id \in DOMAIN e.buildings
                     THEN RemoveFootprint(e.spatialGrid, id, pos.x, pos.y,
                                          Footprint(e.buildings[id].data.size))
                     ELSE removeFromSpatialGrid(e.spatialGrid, id, pos.x, pos.y)
    IN  [e EXCEPT !.nextEntityId = IF id \in DOMAIN e.entities THEN id ELSE @,
                  !.spatialGrid = grid,
                  !.entities    = Drop(@, id),
                  !.positions   = Drop(@, id),
                  !.health      = Drop(@, id),
                  !.units       = Drop(@, id),
                  !.buildings   = Drop(@, id),
                  !.resources   = Drop(@, id)]

\* removeEntity deregistering a building at its anchor cell only
removeEntity_anchorOnly(e, id) ==
    LET grid == IF id \notin DOMAIN e.positions THEN e.spatialGrid
                ELSE removeFromSpatialGrid(e.spatialGrid, id, e.positions[id].x, e.positions[id].y)
    IN  [e EXCEPT !.spatialGrid = grid,
                  !.entities    = Drop(@, id),
                  !.positions   = Drop(@, id),
                  !.health      = Drop(@, id),
                  !.units       = Drop(@, id),
                  !.buildings   = Drop(@, id),
                  !.resources   = Drop(@, id)]

removeEntity(e, id) ==
    LET grid == IF id \notin DOMAIN e.positions THEN e.spatialGrid
                ELSE LET pos == e.positions[id] IN
                     IF id \in DOMAIN e.buildings
                     THEN RemoveFootprint(e.spatialGrid, id, pos.x, pos.y,
                                          Footprint(e.buildings[id].data.size))
                     ELSE removeFromSpatialGrid(e.spatialGrid, id, pos.x, pos.y)
    IN  [e EXCEPT !.spatialGrid = grid,
                  !.entities    = Drop(@, id),
                  !.positions   = Drop(@, id),
                  !.health      = Drop(@, id),
                  !.units       = Drop(@, id),
                  !.buildings   = Drop(@, id),
                  !.resources   = Drop(@, id)]

entityExists(e, id) == id \in DOMAIN e.entities

getPosition(e, id) == IF id \in DOMAIN e.positions THEN Some(e.positions[id]) ELSE Absent

\* setPosition registering the new cell before it looks the entity up
setPosition_registerFirst(e, id, x, y) ==
    LET g == addToSpatialGrid(e.spatialGrid, id, x, y) IN
    IF id \notin DOMAIN e.positions THEN [e EXCEPT !.spatialGrid = g]
    ELSE LET pos == e.positions[id] IN
         [e EXCEPT !.spatialGrid = addToSpatialGrid(
                                       removeFromSpatialGrid(@, id, pos.x, pos.y), id, x, y),
                   !.positions[id] = [x |-> x, y |-> y, prevX |-> pos.x, prevY |-> pos.y]]

\* setPosition that registers the new cell without deregistering the old one
setPosition_noDeregister(e, id, x, y) ==
    IF id \notin DOMAIN e.positions THEN e
    ELSE LET pos == e.positions[id] IN
         [e EXCEPT !.spatialGrid = addToSpatialGrid(@, id, x, y),
                   !.positions[id] = [x |-> x, y |-> y, prevX |-> pos.x, prevY |-> pos.y]]

setPosition(e, id, x, y) ==
    IF id \notin DOMAIN e.positions THEN e
    ELSE LET pos == e.positions[id] IN
         [e EXCEPT !.spatialGrid = addToSpatialGrid(
                                       removeFromSpatialGrid(@, id, pos.x, pos.y), id, x, y),
                   !.positions[id] = [x |-> x, y |-> y, prevX |-> pos.x, prevY |-> pos.y]]

getHP(e, id) == IF id \in DOMAIN e.health THEN Some(e.health[id].hp) ELSE Absent

\* setHP that stores the value it is given
setHP_unclamped(e, id, hp) ==
    IF id \notin DOMAIN e.health THEN e
    ELSE [e EXCEPT !.health[id].hp = hp]

setHP(e, id, hp) ==
    IF id \notin DOMAIN e.health THEN e
    ELSE [e EXCEPT !.health[id].hp = Max(0, Min(e.health[id].maxHp, hp))]

\* damage returns [e |-> the store afterwards, killed |-> the boolean returned]
damage(e, id, amount) ==
    IF id \notin DOMAIN e.health THEN [e |-> e, killed |-> FALSE]
    ELSE LET hp == Max(0, e.health[id].hp - amount) IN
         [e |-> [e EXCEPT !.health[id].hp = hp], killed |-> hp <= 0]

getOwner(e, id) == IF id \in DOMAIN e.entities THEN e.entities[id].owner ELSE -1

isUnit(e, id) == id \in DOMAIN e.entities /\ e.entities[id].type = "unit"

isBuilding(e, id) == id \in DOMAIN e.entities /\ e.entities[id].type = "building"

setUnitState(e, id, state) ==
    IF id \notin DOMAIN e.units THEN e ELSE [e EXCEPT !.units[id].state = state]

setUnitTarget(e, id, targetId, targetPos) ==
    IF id \notin DOMAIN e.units THEN e
    ELSE [e EXCEPT !.units[id].targetId = targetId, !.units[id].targetPos = targetPos]

setUnitPath(e, id, path) ==
    IF id \notin DOMAIN e.units THEN e
    ELSE [e EXCEPT !.units[id].path = path, !.units[id].pathIndex = 0]

\* the orders a training queue takes
QUEUE_LIMIT == 15

\* an order that goes to the front of the queue
addToTrainingQueue_front(e, id, unitId) ==
    IF id \notin DOMAIN e.buildings \/ ~e.buildings[id].isComplete
    THEN [e |-> e, ok |-> FALSE]
    ELSE IF Len(e.buildings[id].trainingQueue) >= QUEUE_LIMIT THEN [e |-> e, ok |-> FALSE]
    ELSE IF unitId \notin DOMAIN UNITS THEN [e |-> e, ok |-> FALSE]
    ELSE [e  |-> [e EXCEPT !.buildings[id].trainingQueue =
                      <<[unitId |-> unitId, progress |-> 0,
                         totalTime |-> UNITS[unitId].trainTime]>> \o @],
          ok |-> TRUE]

addToTrainingQueue(e, id, unitId) ==
    IF id \notin DOMAIN e.buildings \/ ~e.buildings[id].isComplete
    THEN [e |-> e, ok |-> FALSE]
    ELSE IF Len(e.buildings[id].trainingQueue) >= QUEUE_LIMIT THEN [e |-> e, ok |-> FALSE]
    ELSE IF unitId \notin DOMAIN UNITS THEN [e |-> e, ok |-> FALSE]
    ELSE [e  |-> [e EXCEPT !.buildings[id].trainingQueue =
                      Append(@, [unitId |-> unitId, progress |-> 0,
                                 totalTime |-> UNITS[unitId].trainTime])],
          ok |-> TRUE]

\* harvestResource returns [e |-> the store afterwards, harvested |-> the number returned]
harvestResource(e, id, amount) ==
    IF id \notin DOMAIN e.resources \/ e.resources[id].amount <= 0
    THEN [e |-> e, harvested |-> 0]
    ELSE LET harvested == Min(amount, e.resources[id].amount)
             e1 == [e EXCEPT !.resources[id].amount = @ - harvested]
         IN  [e |-> IF e1.resources[id].amount <= 0 THEN removeEntity(e1, id) ELSE e1,
              harvested |-> harvested]

\* the ids of a table in iteration order: a Map iterates in insertion order, and ids
\* are inserted in increasing order
RECURSIVE IdSeq(_)
IdSeq(S) ==
    IF S = {} THEN << >>
    ELSE LET m == CHOOSE x \in S : \A y \in S : x <= y IN <<m>> \o IdSeq(S \ {m})

serialize(e) ==
    [nextEntityId |-> e.nextEntityId,
     entities |->
        [i \in 1..Cardinality(DOMAIN e.entities) |->
            LET id == IdSeq(DOMAIN e.entities)[i] IN
            [id |-> id, owner |-> e.entities[id].owner, type |-> e.entities[id].type,
             pos |-> IF id \in DOMAIN e.positions
                     THEN Some([x |-> e.positions[id].x, y |-> e.positions[id].y]) ELSE Absent,
             hp |-> IF id \in DOMAIN e.health THEN Some(e.health[id]) ELSE Absent,
             unit |-> IF id \in DOMAIN e.units
                      THEN Some([unitId |-> e.units[id].data.id, state |-> e.units[id].state,
                                 carryAmount |-> e.units[id].carryAmount,
                                 carryType |-> e.units[id].carryType])
                      ELSE Absent,
             building |-> IF id \in DOMAIN e.buildings
                          THEN Some([buildingId |-> e.buildings[id].data.id,
                                buildProgress |-> e.buildings[id].buildProgress,
                                isComplete |-> e.buildings[id].isComplete,
                                farmFoodRemaining |-> e.buildings[id].farmFoodRemaining,
                                trainingQueue |-> e.buildings[id].trainingQueue,
                                researchQueue |-> e.buildings[id].researchQueue])
                          ELSE Absent,
             resource |-> IF id \in DOMAIN e.resources THEN Some(e.resources[id]) ELSE Absent]]]

\* one iteration of deserialize's loop over data.entities
DeserializeEntry(e, s) ==
    LET e1 == [e EXCEPT !.entities = Put(@, s.id, [id |-> s.id, owner |-> s.owner, type |-> s.type])]
        e2 == IF s.pos = Absent THEN e1
              ELSE [e1 EXCEPT !.positions = Put(@, s.id, [x |-> s.pos[1].x, y |-> s.pos[1].y,
                                                           prevX |-> s.pos[1].x, prevY |-> s.pos[1].y])]
        e3 == IF s.hp = Absent THEN e2 ELSE [e2 EXCEPT !.health = Put(@, s.id, s.hp[1])]
        e4 == IF s.unit = Absent \/ s.unit[1].unitId \notin DOMAIN UNITS THEN e3
              ELSE [e3 EXCEPT !.units = Put(@, s.id,
                        [NewUnitComponent(UNITS[s.unit[1].unitId]) EXCEPT
                            !.state = s.unit[1].state,
                            !.carryAmount = s.unit[1].carryAmount,
                            !.carryType = s.unit[1].carryType])]
        e5 == IF s.building = Absent \/ s.building[1].buildingId \notin DOMAIN BUILDINGS THEN e4
              ELSE [e4 EXCEPT !.buildings = Put(@, s.id,
                        [data |-> BUILDINGS[s.building[1].buildingId],
                         buildProgress |-> s.building[1].buildProgress,
                         isComplete |-> s.building[1].isComplete,
                         trainingQueue |-> s.building[1].trainingQueue,
                         researchQueue |-> s.building[1].researchQueue,
                         rallyPoint |-> Absent, garrisonedUnits |-> << >>,
                         farmFoodRemaining |-> s.building[1].farmFoodRemaining])]
        e6 == IF s.resource = Absent THEN e5
              ELSE [e5 EXCEPT !.resources = Put(@, s.id, s.resource[1])]
    IN  IF s.pos = Absent THEN e6
        ELSE [e6 EXCEPT !.spatialGrid = addToSpatialGrid(@, s.id, s.pos[1].x, s.pos[1].y)]

RECURSIVE DeserializeFrom(_, _)
DeserializeFrom(e, entries) ==
    IF entries = << >> THEN e
    ELSE DeserializeFrom(DeserializeEntry(e, Head(entries)), Tail(entries))

deserialize(data) ==
    DeserializeFrom([EmInit EXCEPT !.nextEntityId = data.nextEntityId], data.entities)

\* ---------------------------------------------------------------------
\* The Entity Store on its own: sequences of calls of its public surface
\* ---------------------------------------------------------------------
Ids == 1..MaxEntities      \* ids a caller may pass, existing or not

\* world points the calls are made with: inside one cell, and next to a cell corner
Spots == {[x |-> 0, y |-> 0], [x |-> 3, y |-> 3], [x |-> 4, y |-> 4]}

IdleGame == [tick |-> 0, phase |-> "playing", commandQueue |-> << >>, pc |-> "frame"]

NoCombat == [projectiles |-> << >>, timers |-> << >>]

\* no second run
NoTwin == << >>

NoPlayers ==
    [p \in Owners |-> [score |-> 0, isDefeated |-> FALSE, researchedTechs |-> {}, age |-> 0,
                       resources |-> [food |-> 1, wood |-> 0, gold |-> 0, stone |-> 0]]]

\* the operations of the store that take an entity id
EntityOps == {"getPosition", "getHP", "setPosition", "setHP", "damage", "setUnitState",
              "setUnitTarget", "setUnitPath", "harvestResource", "addToTrainingQueue",
              "removeEntity"}

\* a call of operation op with entity id `id` (and fixed further arguments):
\* [e |-> the store afterwards, ret |-> what the call returns]
CallOp(op, e, id) ==
    CASE op = "getPosition"        -> [e |-> e, ret |-> getPosition(e, id)]
      [] op = "getHP"              -> [e |-> e, ret |-> getHP(e, id)]
      [] op = "setPosition"        -> [e |-> setPosition(e, id, 4, 4), ret |-> Absent]
      [] op = "setHP"              -> [e |-> setHP(e, id, 1), ret |-> Absent]
      [] op = "damage"             -> [e |-> damage(e, id, 1).e, ret |-> Some(damage(e, id, 1).killed)]
      [] op = "setUnitState"       -> [e |-> setUnitState(e, id, "moving"), ret |-> Absent]
      [] op = "setUnitTarget"      -> [e |-> setUnitTarget(e, id, 1, Absent), ret |-> Absent]
      [] op = "setUnitPath"        -> [e |-> setUnitPath(e, id, <<[x |-> 1, y |-> 1]>>), ret |-> Absent]
      [] op = "harvestResource"    -> [e |-> harvestResource(e, id, 1).e,
                                       ret |-> Some(harvestResource(e, id, 1).harvested)]
      [] op = "addToTrainingQueue" -> [e |-> addToTrainingQueue(e, id, "militia").e,
                                       ret |-> Some(addToTrainingQueue(e, id, "militia").ok)]
      [] op = "removeEntity"       -> [e |-> removeEntity(e, id), ret |-> Absent]

\* the sentinel each operation returns for an id that does not exist
Sentinel(op) ==
    CASE op \in {"getPosition", "getHP"} -> Absent              \* undefined
      [] op \in {"damage", "addToTrainingQueue"} -> Some(FALSE)
      [] op = "harvestResource" -> Some(0)
      [] OTHER -> Absent                                         \* void

NoMiss == [op |-> "none", id |-> NoId]

\* the distinct cells entity id is registered in
CellsOf(e, id) == {k \in DOMAIN e.spatialGrid : Count(e.spatialGrid[k], id) > 0}

\* hist.issued:  the ids the create calls returned, in order
\* hist.removed: for every entity removed so far, its type and the number of cells it
\*               was registered in when it was removed
\* hist.miss:    the operation just called with an id that does not exist, and that id
\*               (NoMiss if the last call was not such a call)
StoreInit ==
    /\ em = EmInit
    /\ players = NoPlayers
    /\ game = IdleGame
    /\ combat = NoCombat
    /\ twin = NoTwin
    /\ hist = [issued |-> << >>, removed |-> << >>, miss |-> NoMiss]

StoreStep(e1, newIds) ==
    /\ em' = e1
    /\ hist' = [issued  |-> hist.issued \o newIds,
                removed |-> [id \in DOMAIN hist.removed \cup (DOMAIN em.entities \ DOMAIN e1.entities) |->
                                IF id \in DOMAIN em.entities
                                THEN [type |-> em.entities[id].type,
                                      cells |-> Cardinality(CellsOf(em, id))]
                                ELSE hist.removed[id]],
                miss    |-> NoMiss]
    /\ UNCHANGED <<players, game, combat, twin>>

CreateUnit ==
    \E p \in Spots :
        /\ em.nextEntityId <= MaxEntities
        /\ StoreStep(createUnit(em, UNITS.villager, 1, p.x, p.y), <<em.nextEntityId>>)

\* every caller (placeBuilding, spawnStartingUnits) creates the building incomplete
CreateBuilding ==
    \E p \in Spots :
        /\ em.nextEntityId <= MaxEntities
        /\ StoreStep(createBuilding(em, BUILDINGS.house, 1, p.x, p.y, FALSE),
                     <<em.nextEntityId>>)

CreateResource ==
    \E p \in Spots :
        /\ em.nextEntityId <= MaxEntities
        /\ StoreStep(createResource(em, "food", 2, p.x, p.y), <<em.nextEntityId>>)

RemoveEntity ==
    \E id \in DOMAIN em.entities : StoreStep(removeEntity(em, id), << >>)

\* units are the only entities the program moves (UnitSystem.updateMoving,
\* BuildingSystem.ungarrison)
SetPosition ==
    \E id \in DOMAIN em.units, p \in Spots : StoreStep(setPosition(em, id, p.x, p.y), << >>)

HarvestResource ==
    \E id \in DOMAIN em.resources : StoreStep(harvestResource(em, id, 1).e, << >>)

\* save and load: deserialize(serialize())
Deserialize ==
    StoreStep(deserialize(serialize(em)), << >>)

\* any operation called with an id that does not exist (never issued, or removed)
CallOnMissing ==
    \E op \in EntityOps, id \in Ids \ DOMAIN em.entities :
        /\ em' = CallOp(op, em, id).e
        /\ hist' = [hist EXCEPT !.miss = [op |-> op, id |-> id]]
        /\ UNCHANGED <<players, game, combat, twin>>

StoreNext ==
    \/ CreateUnit \/ CreateBuilding \/ CreateResource \/ RemoveEntity
    \/ SetPosition \/ HarvestResource \/ Deserialize \/ CallOnMissing

SpecStore == StoreInit /\ [][StoreNext]_vars

\* ---------------------------------------------------------------------
\* Claims about the Entity Store (checked under SpecStore)
\* ---------------------------------------------------------------------

\* C7: every Entity Store operation called with an id that does not exist returns its
\* sentinel and leaves every component table and the spatial grid unchanged.
C7_MissingIdIsNoOp ==
    \A op \in EntityOps, id \in Ids \ DOMAIN em.entities :
        CallOp(op, em, id) = [e |-> em, ret |-> Sentinel(op)]

\* C7 witness: harvestResource has just been called with the id of a removed entity,
\* while another entity exists
C7_Witness ==
    /\ hist.miss.op = "harvestResource"
    /\ hist.miss.id \in DOMAIN hist.removed
    /\ DOMAIN em.entities # {}

\* C8: every create returns an id strictly greater than every id returned before it
\* and never 0, so no id is handed out twice, also after removals.
C8_IdsStrictlyIncrease ==
    /\ \A i \in 1..Len(hist.issued) : hist.issued[i] > 0
    /\ \A i, j \in 1..Len(hist.issued) : i < j => hist.issued[i] < hist.issued[j]
    /\ \A id \in DOMAIN em.entities : \E i \in 1..Len(hist.issued) : hist.issued[i] = id
    /\ \A i \in 1..Len(hist.issued) : hist.issued[i] < em.nextEntityId

\* C8 witness: an id was handed out after the entity with an earlier id was removed
C8_Witness ==
    /\ Len(hist.issued) >= 2
    /\ hist.issued[1] \in DOMAIN hist.removed
    /\ hist.issued[Len(hist.issued)] \in DOMAIN em.entities

\* the ids that occur anywhere in the store
IdsInTables(e) ==
    DOMAIN e.entities \cup DOMAIN e.positions \cup DOMAIN e.health \cup DOMAIN e.units
        \cup DOMAIN e.buildings \cup DOMAIN e.resources

IdsInGrid(e) == {id \in Ids : CellsOf(e, id) # {}}

\* C9: a removed id is in no component table and in no spatial grid cell.
C9_RemovedIsGone ==
    \A id \in DOMAIN hist.removed : id \notin IdsInTables(em) /\ id \notin IdsInGrid(em)

\* C9 witness: a building registered in several cells has been removed while another
\* entity is still registered in the grid
C9_Witness ==
    /\ \E id \in DOMAIN hist.removed :
          hist.removed[id].type = "building" /\ hist.removed[id].cells > 1
    /\ DOMAIN em.spatialGrid # {}

\* number of times entity id is registered in the grid, over all cells
Registrations(e, id) ==
    LET keys == IdSeq({k[1] * 1000 + k[2] : k \in DOMAIN e.spatialGrid})
        RECURSIVE Sum(_)
        Sum(ks) == IF ks = << >> THEN 0
                   ELSE Count(e.spatialGrid[<<Head(ks) \div 1000, Head(ks) % 1000>>], id)
                        + Sum(Tail(ks))
    IN  Sum(keys)

\* C10 as stated: every entity with a Position is registered in exactly one cell,
\* exactly once, the cell of its current coordinates.
C10_Original ==
    \A id \in DOMAIN em.positions :
        /\ Registrations(em, id) = 1
        /\ CellsOf(em, id) = {CellKey(em.positions[id].x, em.positions[id].y)}

\* the cells a building's footprint touches
FootprintCells(e, id) ==
    LET offs == Footprint(e.buildings[id].data.size) IN
    {CellKey(e.positions[id].x + offs[i].dx, e.positions[id].y + offs[i].dy) : i \in 1..Len(offs)}

\* C10 amended: every unit and every resource node that has a Position is registered
\* in exactly one cell, exactly once, the cell at floor(x/4), floor(y/4) of its current
\* coordinates; a building is registered in the cell of its anchor and only in cells its
\* footprint touches (once per footprint tile when created, once when deserialized).
C10_Registered ==
    \A id \in DOMAIN em.positions :
        LET home == CellKey(em.positions[id].x, em.positions[id].y) IN
        IF id \in DOMAIN em.buildings
        THEN /\ home \in CellsOf(em, id)
             /\ CellsOf(em, id) \subseteq FootprintCells(em, id)
             /\ Registrations(em, id) \in
                    {1, Len(Footprint(em.buildings[id].data.size))}
        ELSE /\ Registrations(em, id) = 1
             /\ CellsOf(em, id) = {home}

\* C10 witness: a unit has been moved by setPosition into another cell, which it shares
\* with an entity created after it
C10_Witness ==
    \E id \in DOMAIN em.units :
        LET pos == em.positions[id]
            home == CellKey(pos.x, pos.y) IN
        /\ CellKey(pos.prevX, pos.prevY) # home
        /\ Len(em.spatialGrid[home]) > 1
        /\ \E b \in DOMAIN em.buildings : Registrations(em, b) > 1

\* ---------------------------------------------------------------------
\* The world the systems act on: the store, the players, the game state (tick, phase,
\* command queue, map) and the combat system's projectiles and pending setTimeout
\* callbacks.  `log` is the trace of the calls of dealDamage and handleEntityKill made
\* since the step began: history, not program state.
\* ---------------------------------------------------------------------
TICK_RATE == 20

World(e, p, g, c) == [em |-> e, players |-> p, game |-> g, combat |-> c, log |-> << >>]

Logged(w, call, a, b, ok, before, after) ==
    [w EXCEPT !.log = Append(@, [call |-> call, attacker |-> a, target |-> b, ok |-> ok,
                                 before |-> before, after |-> after])]

Abs(n) == IF n < 0 THEN -n ELSE n

Sgn(n) == IF n < 0 THEN -1 ELSE IF n > 0 THEN 1 ELSE 0

\* floor of the square root
Isqrt(n) == CHOOSE r \in 0..n : r * r <= n /\ (r + 1) * (r + 1) > n

\* map.tiles[y][x], keyed <<x, y>>
InMap(map, x, y) == x >= 0 /\ x < map.width /\ y >= 0 /\ y < map.height

\* ---------------------------------------------------------------------
\* BuildingSystem: garrison and deletion
\* ---------------------------------------------------------------------
\* no search: the position asked for
findSpawnPosition_asGiven(map, x, y) == [x |-> x, y |-> y]

\* the first walkable tile in the spiral order r, dy, dx around (x, y)
findSpawnPosition(map, x, y) ==
    LET Ring(t) == Max(Abs(t[1] - x), Abs(t[2] - y))
        cand == {t \in DOMAIN map.tiles : map.tiles[t].walkable /\ Ring(t) < 10}
        Before(s, t) == \/ Ring(s) < Ring(t)
                        \/ Ring(s) = Ring(t) /\ s[2] < t[2]
                        \/ Ring(s) = Ring(t) /\ s[2] = t[2] /\ s[1] < t[1]
    IN  IF cand = {} THEN [x |-> x, y |-> y]
        ELSE LET t == CHOOSE t \in cand : \A s \in cand : s = t \/ Before(t, s)
             IN  [x |-> t[1], y |-> t[2]]

\* garrison returns [w |-> the world afterwards, ok |-> the boolean returned]
garrison(w, unitId, buildingId) ==
    IF buildingId \notin DOMAIN w.em.buildings \/ unitId \notin DOMAIN w.em.units
    THEN [w |-> w, ok |-> FALSE]
    ELSE IF Len(w.em.buildings[buildingId].garrisonedUnits) >=
                w.em.buildings[buildingId].data.garrisonCapacity
    THEN [w |-> w, ok |-> FALSE]
    ELSE [w |-> [w EXCEPT !.em.buildings[buildingId].garrisonedUnits = Append(@, unitId),
                          !.em.units[unitId].garrisonedIn = buildingId,
                          !.em.units[unitId].state = "garrisoned"],
          ok |-> TRUE]

RECURSIVE UngarrisonEach(_, _, _)
UngarrisonEach(e, spawnPos, unitIds) ==
    IF unitIds = << >> THEN e
    ELSE LET u == Head(unitIds)
             e1 == IF u \notin DOMAIN e.units THEN e
                   ELSE setPosition([e EXCEPT !.units[u].garrisonedIn = NoId,
                                              !.units[u].state = "idle"],
                                    u, spawnPos.x, spawnPos.y)
         IN  UngarrisonEach(e1, spawnPos, Tail(unitIds))

ungarrison(w, buildingId) ==
    IF buildingId \notin DOMAIN w.em.buildings \/ buildingId \notin DOMAIN w.em.positions
    THEN w
    ELSE LET b   == w.em.buildings[buildingId]
             pos == w.em.positions[buildingId]
             spawnPos == findSpawnPosition(w.game.map, pos.x + b.data.size.x,
                                           pos.y + b.data.size.y)
             e1  == UngarrisonEach(w.em, spawnPos, b.garrisonedUnits)
         IN  [w EXCEPT !.em = [e1 EXCEPT !.buildings[buildingId].garrisonedUnits = << >>]]

deleteBuilding(w, buildingId) ==
    LET w1 == ungarrison(w, buildingId)
        w2 == IF buildingId \in DOMAIN w1.em.positions /\ buildingId \in DOMAIN w1.em.buildings
              THEN LET pos  == w1.em.positions[buildingId]
                       size == w1.em.buildings[buildingId].data.size
                       freed == {t \in DOMAIN w1.game.map.tiles :
                                    /\ t[1] >= pos.x /\ t[1] < pos.x + size.x
                                    /\ t[2] >= pos.y /\ t[2] < pos.y + size.y}
                   IN  [w1 EXCEPT !.game.map.tiles =
                            [t \in DOMAIN @ |-> IF t \in freed
                                                THEN [@[t] EXCEPT !.buildable = TRUE]
                                                ELSE @[t]]]
              ELSE w1
    IN  [w2 EXCEPT !.em = removeEntity(@, buildingId)]

\* ---------------------------------------------------------------------
\* CombatSystem
\* ---------------------------------------------------------------------
categoryMap ==
    [infantry |-> {"infantry"}, cavalry |-> {"cavalry"}, archer |-> {"archer"},
     siege |-> {"siege"}, monk |-> {"monk"}, ship |-> {"naval"}, camel |-> {"cavalry"},
     elephant |-> {"cavalry"}, spearman |-> {"infantry"}, eagle |-> {"infantry"},
     unique |-> {"infantry", "cavalry", "archer"}]

matchesCategory(category, against) ==
    against \in DOMAIN categoryMap /\ category \in categoryMap[against]

\* the score a kill adds to the killer's owner
KILL_SCORE == 5

\* handleEntityKill's last step: the owner of the killer gains KILL_SCORE
AddKillScore(w, killerOwner) ==
    IF killerOwner \in DOMAIN w.players
    THEN [w EXCEPT !.players[killerOwner].score = @ + KILL_SCORE]
    ELSE w

handleEntityKill(w, killerId, victimId) ==
    LET w0 == Logged(w, "handleEntityKill", killerId, victimId, TRUE, 0, 0)
        AwardKiller(w1) == AddKillScore(w1, getOwner(w1.em, killerId))
    IN  AwardKiller(IF isUnit(w0.em, victimId)
                    THEN [w0 EXCEPT !.em = setUnitState(@, victimId, "dead"),
                                    !.combat.timers = Append(@, victimId)]
                    ELSE IF isBuilding(w0.em, victimId) THEN deleteBuilding(w0, victimId)
                    ELSE [w0 EXCEPT !.em = removeEntity(@, victimId)])

\* the callback handleEntityKill hands to setTimeout
removeDeadUnit(e, victimId) ==
    IF entityExists(e, victimId) THEN removeEntity(e, victimId) ELSE e

\* attack plus bonus damage of attacker against the target
baseDamage(e, attacker, targetId) ==
    LET bd == attacker.bonusDamage
        RECURSIVE Bonus(_)
        Bonus(cats) ==
            IF cats = {} THEN 0
            ELSE LET c == CHOOSE c \in cats : TRUE IN
                 (IF targetId \in DOMAIN e.units
                     /\ matchesCategory(e.units[targetId].data.category, c)
                  THEN bd[c] ELSE 0)
                 + (IF targetId \in DOMAIN e.buildings /\ c = "building" THEN bd[c] ELSE 0)
                 + Bonus(cats \ {c})
    IN  attacker.attack + Bonus(DOMAIN bd)

\* the armor of the target that applies to attacker: pierce against range > 1, else melee
armor(e, attacker, targetId) ==
    IF targetId \in DOMAIN e.units
    THEN IF attacker.range > 1 THEN e.units[targetId].data.pierceArmor
                               ELSE e.units[targetId].data.meleeArmor
    ELSE IF targetId \in DOMAIN e.buildings
    THEN IF attacker.range > 1 THEN e.buildings[targetId].data.pierceArmor
                               ELSE e.buildings[targetId].data.meleeArmor
    ELSE 0

\* finalDamage without the floor of 1
finalDamage_unfloored(e, attacker, targetId) ==
    baseDamage(e, attacker, targetId) - armor(e, attacker, targetId)

finalDamage(e, attacker, targetId) ==
    Max(1, baseDamage(e, attacker, targetId) - armor(e, attacker, targetId))

\* hp of id as the log records it: -1 for an entity without health
LoggedHP(e, id) == IF id \in DOMAIN e.health THEN e.health[id].hp ELSE -1

dealDamage(w, attackerId, targetId) ==
    IF attackerId \notin DOMAIN w.em.units
    THEN Logged(w, "dealDamage", attackerId, targetId, FALSE,
                LoggedHP(w.em, targetId), LoggedHP(w.em, targetId))
    ELSE LET d  == damage(w.em, targetId,
                          finalDamage(w.em, w.em.units[attackerId].data, targetId))
             w1 == Logged([w EXCEPT !.em = d.e], "dealDamage", attackerId, targetId, TRUE,
                          LoggedHP(w.em, targetId), LoggedHP(d.e, targetId))
         IN  IF d.killed THEN handleEntityKill(w1, attackerId, targetId) ELSE w1

\* projectile coordinates are kept in tenths of a tile
PROJECTILE_SPEED == 8

PROJECTILE_MAX_AGE == 5

createProjectile(w, sourceId, targetId, sx, sy, tx, ty, dmg) ==
    [w EXCEPT !.combat.projectiles =
        Append(@, [sourceId |-> sourceId, targetId |-> targetId, x |-> 10 * sx, y |-> 10 * sy,
                   targetX |-> 10 * tx, targetY |-> 10 * ty, speed |-> PROJECTILE_SPEED,
                   damage |-> dmg, age |-> 0])]

\* one projectile's turn in updateProjectiles' filter: [w |-> the world afterwards,
\* keep |-> the projectile if the filter keeps it].  age counts ticks of dt = 1/TICK_RATE s;
\* the step is exact when source and target share a row or a column, and rounded towards
\* the projectile otherwise.
updateProjectile(w, proj) ==
    LET tracked == IF entityExists(w.em, proj.targetId) /\ proj.targetId \in DOMAIN w.em.positions
                   THEN [proj EXCEPT !.age = @ + 1,
                                     !.targetX = 10 * w.em.positions[proj.targetId].x,
                                     !.targetY = 10 * w.em.positions[proj.targetId].y]
                   ELSE [proj EXCEPT !.age = @ + 1]
        dx == tracked.targetX - tracked.x
        dy == tracked.targetY - tracked.y
        distSq == dx * dx + dy * dy
        dist == Isqrt(distSq)
        moveSpeed == (10 * tracked.speed) \div TICK_RATE
        step == Min(moveSpeed, dist)
    IN  IF 4 * distSq < 100            \* dist < 0.5 tile
        THEN [w |-> IF entityExists(w.em, tracked.targetId)
                    THEN dealDamage(w, tracked.sourceId, tracked.targetId) ELSE w,
              keep |-> << >>]
        ELSE [w |-> w,
              keep |-> IF tracked.age < PROJECTILE_MAX_AGE * TICK_RATE
                       THEN <<[tracked EXCEPT
                                 !.x = @ + Sgn(dx) * ((Abs(dx) * step) \div dist),
                                 !.y = @ + Sgn(dy) * ((Abs(dy) * step) \div dist)]>>
                       ELSE << >>]

RECURSIVE FilterProjectiles(_, _, _)
FilterProjectiles(w, projs, kept) ==
    IF projs = << >> THEN [w EXCEPT !.combat.projectiles = kept]
    ELSE LET Rest(r) == FilterProjectiles(r.w, Tail(projs), kept \o r.keep)
         IN  Rest(updateProjectile(w, Head(projs)))

\* CombatSystem.update
updateProjectiles(w) == FilterProjectiles(w, w.combat.projectiles, << >>)

\* ---------------------------------------------------------------------
\* Pathfinder (shared/src/utils.ts).  A cost a + b * SQRT2 is the pair <<a, b>>, compared
\* exactly.  In the code's double arithmetic two costs that are equal here can differ in
\* the last bit, which decides between nodes of equal cost (and so between paths of equal
\* length, and the number of passes a search takes); costs that differ here differ by far
\* more than the rounding error and compare the same way in both.
\* ---------------------------------------------------------------------
CostLess(p, q) ==
    LET da == q[1] - p[1]
        db == q[2] - p[2]
    IN  IF da >= 0 /\ db >= 0 THEN da > 0 \/ db > 0
        ELSE IF da <= 0 /\ db <= 0 THEN FALSE
        ELSE IF da > 0 THEN da * da > 2 * db * db
        ELSE 2 * db * db > da * da

CostAdd(p, q) == <<p[1] + q[1], p[2] + q[2]>>

\* octile distance: max(dx, dy) + (SQRT2 - 1) * min(dx, dy)
heuristic(a, b) ==
    LET dx == Abs(a.x - b.x)
        dy == Abs(a.y - b.y)
    IN  <<Max(dx, dy) - Min(dx, dy), Min(dx, dy)>>

isWalkable(map, x, y) == InMap(map, x, y) /\ map.tiles[<<x, y>>].walkable

findNearestWalkable(map, pos) ==
    LET Ring(t) == Max(Abs(t[1] - pos.x), Abs(t[2] - pos.y))
        cand == {t \in DOMAIN map.tiles : map.tiles[t].walkable /\ Ring(t) >= 1 /\ Ring(t) < 10}
        Before(s, t) == \/ Ring(s) < Ring(t)
                        \/ Ring(s) = Ring(t) /\ s[1] < t[1]
                        \/ Ring(s) = Ring(t) /\ s[1] = t[1] /\ s[2] < t[2]
    IN  IF cand = {} THEN Absent
        ELSE LET t == CHOOSE t \in cand : \A s \in cand : s = t \/ Before(t, s)
             IN  Some([x |-> t[1], y |-> t[2]])

\* the eight neighbours in the order the search visits them
Neighbors ==
    <<[dx |-> -1, dy |-> -1], [dx |-> 0, dy |-> -1], [dx |-> 1, dy |-> -1],
      [dx |-> -1, dy |-> 0],                         [dx |-> 1, dy |-> 0],
      [dx |-> -1, dy |-> 1],  [dx |-> 0, dy |-> 1],  [dx |-> 1, dy |-> 1]>>

MAX_ITERATIONS == 2000

\* the index of the first node of the open list with the highest f
LowestIdx_highest(open, node) ==
    CHOOSE i \in 1..Len(open) :
        /\ \A j \in 1..Len(open) : ~CostLess(node[open[i]].f, node[open[j]].f)
        /\ \A j \in 1..(i - 1) : CostLess(node[open[j]].f, node[open[i]].f)

\* the index of the first node of the open list with the lowest f
LowestIdx(open, node) ==
    CHOOSE i \in 1..Len(open) :
        /\ \A j \in 1..Len(open) : ~CostLess(node[open[j]].f, node[open[i]].f)
        /\ \A j \in 1..(i - 1) : CostLess(node[open[i]].f, node[open[j]].f)

\* the path from the start to tile t along the parent links
RECURSIVE PathTo(_, _)
PathTo(node, t) ==
    (IF node[t].parent = Absent THEN << >> ELSE PathTo(node, node[t].parent[1]))
        \o <<[x |-> t[1], y |-> t[2]]>>

\* the loop over the neighbours of current: s = [open, node] is the open list (tiles in
\* insertion order) and the g, f and parent of every tile seen
RECURSIVE Expand(_, _, _, _, _, _)
\* Expand without the check of the two tiles beside a diagonal step
Expand_cornerCutting(s, closed, cur, goal, map, nbs) ==
    IF nbs = << >> THEN s
    ELSE LET d  == Head(nbs)
             nx == cur[1] + d.dx
             ny == cur[2] + d.dy
             n  == <<nx, ny>>
             skip == ~InMap(map, nx, ny) \/ ~isWalkable(map, nx, ny) \/ n \in closed
             g  == CostAdd(s.node[cur].g, IF d.dx # 0 /\ d.dy # 0 THEN <<0, 1>> ELSE <<1, 0>>)
             f  == CostAdd(g, heuristic([x |-> nx, y |-> ny], goal))
             entry == [g |-> g, f |-> f, parent |-> Some(cur)]
             s1 == IF skip THEN s
                   ELSE IF IndexOf(s.open, n) > 0
                   THEN IF CostLess(g, s.node[n].g)
                        THEN [s EXCEPT !.node[n] = entry] ELSE s
                   ELSE [open |-> Append(s.open, n), node |-> Put(s.node, n, entry)]
         IN  Expand(s1, closed, cur, goal, map, Tail(nbs))

Expand(s, closed, cur, goal, map, nbs) ==
    IF nbs = << >> THEN s
    ELSE LET d  == Head(nbs)
             nx == cur[1] + d.dx
             ny == cur[2] + d.dy
             n  == <<nx, ny>>
             skip == \/ ~InMap(map, nx, ny)
                     \/ ~isWalkable(map, nx, ny)
                     \/ n \in closed
                     \/ /\ d.dx # 0 /\ d.dy # 0
                        /\ (~isWalkable(map, cur[1] + d.dx, cur[2])
                            \/ ~isWalkable(map, cur[1], cur[2] + d.dy))
             g  == CostAdd(s.node[cur].g, IF d.dx # 0 /\ d.dy # 0 THEN <<0, 1>> ELSE <<1, 0>>)
             f  == CostAdd(g, heuristic([x |-> nx, y |-> ny], goal))
             entry == [g |-> g, f |-> f, parent |-> Some(cur)]
             s1 == IF skip THEN s
                   ELSE IF IndexOf(s.open, n) > 0
                   THEN IF CostLess(g, s.node[n].g)
                        THEN [s EXCEPT !.node[n] = entry] ELSE s
                   ELSE [open |-> Append(s.open, n), node |-> Put(s.node, n, entry)]
         IN  Expand(s1, closed, cur, goal, map, Tail(nbs))

RECURSIVE Search(_, _, _, _, _, _)
\* Search with one pass more than maxIterations allows
Search_onePassMore(s, closed, goal, map, iterations, maxIterations) ==
    IF s.open = << >> \/ iterations > maxIterations
    THEN [path |-> Absent, iterations |-> iterations]
    ELSE LET idx == LowestIdx(s.open, s.node)
             cur == s.open[idx]
         IN  IF cur[1] = goal.x /\ cur[2] = goal.y
             THEN [path |-> Some(PathTo(s.node, cur)), iterations |-> iterations + 1]
             ELSE Search(Expand([s EXCEPT !.open = SpliceOut(@, idx)], closed \cup {cur},
                                cur, goal, map, Neighbors),
                         closed \cup {cur}, goal, map, iterations + 1, maxIterations)

\* the main loop: [path |-> Some(path) or Absent (null), iterations |-> the passes made]
Search(s, closed, goal, map, iterations, maxIterations) ==
    IF s.open = << >> \/ iterations >= maxIterations
    THEN [path |-> Absent, iterations |-> iterations]
    ELSE LET idx == LowestIdx(s.open, s.node)
             cur == s.open[idx]
         IN  IF cur[1] = goal.x /\ cur[2] = goal.y
             THEN [path |-> Some(PathTo(s.node, cur)), iterations |-> iterations + 1]
             ELSE Search(Expand([s EXCEPT !.open = SpliceOut(@, idx)], closed \cup {cur},
                                cur, goal, map, Neighbors),
                         closed \cup {cur}, goal, map, iterations + 1, maxIterations)

\* the tile the search heads for: end, or the walkable tile found for an unwalkable end
GoalOf(end, map) ==
    IF isWalkable(map, end.x, end.y) THEN Some(end) ELSE findNearestWalkable(map, end)

\* findPath with the number of passes of its loop
FindPathRun(start, end, map, maxIterations) ==
    LET goal == GoalOf(end, map)
    IN  IF goal = Absent THEN [path |-> Absent, iterations |-> 0]
        ELSE LET h == heuristic(start, goal[1]) IN
             Search([open |-> <<(<<start.x, start.y>>)>>,
                     node |-> (<<start.x, start.y>> :> [g |-> <<0, 0>>, f |-> h,
                                                         parent |-> Absent])],
                    {}, goal[1], map, 0, maxIterations)

\* findPath returns Some(path) or Absent (null)
findPath(start, end, map, maxIterations) == FindPathRun(start, end, map, maxIterations).path

\* ---------------------------------------------------------------------
\* EntityManager.getEntitiesInRange: the ids within `range` of (cx, cy), in the order the
\* scan over the grid cells finds them.  q.unit is the number of steps a tile is divided
\* in for cx, cy and range (1: whole tiles, 10: tenths of a tile).
\* ---------------------------------------------------------------------
CeilDiv(n, d) == -((-n) \div d)

RECURSIVE ScanCell(_, _, _, _)
ScanCell(e, ids, q, acc) ==
    IF ids = << >> THEN acc
    ELSE IF Head(ids) \in acc.checked THEN ScanCell(e, Tail(ids), q, acc)
    ELSE LET id == Head(ids)
             hit == /\ id \in DOMAIN e.positions
                    /\ (q.unit * e.positions[id].x - q.cx) * (q.unit * e.positions[id].x - q.cx)
                       + (q.unit * e.positions[id].y - q.cy) * (q.unit * e.positions[id].y - q.cy)
                       <= q.range * q.range
         IN  ScanCell(e, Tail(ids), q,
                      [checked |-> acc.checked \cup {id},
                       result  |-> IF hit THEN Append(acc.result, id) ELSE acc.result])

RECURSIVE ScanCells(_, _, _, _, _, _, _, _)
ScanCells(e, gx, gy, startCX, endCX, endCY, q, acc) ==
    IF gy > endCY THEN acc.result
    ELSE IF gx > endCX THEN ScanCells(e, startCX, gy + 1, startCX, endCX, endCY, q, acc)
    ELSE ScanCells(e, gx + 1, gy, startCX, endCX, endCY, q,
                   IF <<gx, gy>> \in DOMAIN e.spatialGrid
                   THEN ScanCell(e, e.spatialGrid[<<gx, gy>>], q, acc)
                   ELSE acc)

getEntitiesInRangeAt(e, cx, cy, range, unit) ==
    ScanCells(e, (cx - range) \div (CELL_SIZE * unit), (cy - range) \div (CELL_SIZE * unit),
              (cx - range) \div (CELL_SIZE * unit), CeilDiv(cx + range, CELL_SIZE * unit),
              CeilDiv(cy + range, CELL_SIZE * unit),
              [cx |-> cx, cy |-> cy, range |-> range, unit |-> unit],
              [checked |-> {}, result |-> << >>])

\* the query in whole tiles
getEntitiesInRange(e, cx, cy, range) == getEntitiesInRangeAt(e, cx, cy, range, 1)

\* Positions are whole numbers of position steps.  A world whose game record has no
\* posUnit field counts in tiles (1 step per tile): its units stand on tile corners and
\* the half tile of a waypoint is dropped.  A world with posUnit = u counts u steps per
\* tile, and a tile centre is u \div 2 steps from the corner.
PosUnit(w) == IF "posUnit" \in DOMAIN w.game THEN w.game.posUnit ELSE 1

\* em.setPosition(id, x, y) with x and y in steps of 1 / unit tile
setPositionAt(e, id, x, y, unit) ==
    IF id \notin DOMAIN e.positions THEN e
    ELSE LET pos == e.positions[id] IN
         [e EXCEPT !.spatialGrid = addToSpatialGrid(
                                       removeFromSpatialGrid(@, id, pos.x \div unit,
                                                             pos.y \div unit),
                                       id, x \div unit, y \div unit),
                   !.positions[id] = [x |-> x, y |-> y, prevX |-> pos.x, prevY |-> pos.y]]

\* em.getEntitiesInRange(cx, cy, range) with cx and cy in steps and range in tiles
getEntitiesInReach(w, cx, cy, range) ==
    LET u == PosUnit(w) IN
    ScanCells(w.em, (cx - range * u) \div (CELL_SIZE * u), (cy - range * u) \div (CELL_SIZE * u),
              (cx - range * u) \div (CELL_SIZE * u), CeilDiv(cx + range * u, CELL_SIZE * u),
              CeilDiv(cy + range * u, CELL_SIZE * u),
              [cx |-> cx, cy |-> cy, range |-> range * u, unit |-> 1],
              [checked |-> {}, result |-> << >>])

\* ---------------------------------------------------------------------
\* UnitSystem
\* ---------------------------------------------------------------------
\* moveUnit: the path runs from the tile of the unit to the tile of the target, and its
\* waypoints are the tile centres
moveUnit(w, entityId, target) ==
    IF entityId \notin DOMAIN w.em.positions THEN w
    ELSE LET pos  == w.em.positions[entityId]
             u    == PosUnit(w)
             path == findPath([x |-> pos.x \div u, y |-> pos.y \div u],
                              [x |-> target.x \div u, y |-> target.y \div u],
                              w.game.map, MAX_ITERATIONS)
             Centres(tiles) == [i \in 1..Len(tiles) |->
                                   [x |-> tiles[i].x * u + u \div 2,
                                    y |-> tiles[i].y * u + u \div 2]]
         IN  IF path # Absent /\ Len(path[1]) > 0
             THEN [w EXCEPT !.em = setUnitTarget(
                                       setUnitState(setUnitPath(@, entityId, Centres(path[1])),
                                                    entityId, "moving"),
                                       entityId, NoId, Some(target))]
             ELSE w

attackUnit(w, entityId, targetId) ==
    [w EXCEPT !.em = setUnitTarget(setUnitState(@, entityId, "attacking"),
                                   entityId, targetId, Absent)]

gatherResource(w, entityId, targetId, targetPos) ==
    [w EXCEPT !.em = setUnitTarget(setUnitState(@, entityId, "gathering"),
                                   entityId, targetId, targetPos)]

repairStructure(w, entityId, targetId) ==
    [w EXCEPT !.em = setUnitTarget(setUnitState(@, entityId, "repairing"),
                                   entityId, targetId, Absent)]

patrol(w, entityId, points) ==
    IF entityId \notin DOMAIN w.em.units THEN w
    ELSE moveUnit([w EXCEPT !.em = setUnitState(
                                [@ EXCEPT !.units[entityId].patrolPoints = points,
                                          !.units[entityId].patrolIndex = 0],
                                entityId, "patrolling")],
                  entityId, points[1])

\* dist > k / 10 tiles for the distance dist of (dx, dy) steps, with u steps per tile
FartherThan(dx, dy, k, u) ==
    \/ 10 * Abs(dx) > k * u
    \/ 10 * Abs(dy) > k * u
    \/ dx * dx + dy * dy > k * k * ((u * u) \div 100) + (k * k * ((u * u) % 100)) \div 100

\* attackCooldown is set to attackSpeed * 1000 and lowered by dt = 1 / TICK_RATE on every
\* update: the model keeps it in units of dt
updateAttacking(w, entityId) ==
    LET unit == w.em.units[entityId]
        pos  == w.em.positions[entityId]
    IN  IF unit.targetId = NoId THEN [w EXCEPT !.em = setUnitState(@, entityId, "idle")]
        ELSE IF ~entityExists(w.em, unit.targetId)
        THEN [w EXCEPT !.em = setUnitTarget(setUnitState(@, entityId, "idle"),
                                            entityId, NoId, Absent)]
        ELSE IF unit.targetId \notin DOMAIN w.em.positions
        THEN [w EXCEPT !.em = setUnitState(@, entityId, "idle")]
        ELSE LET targetPos == w.em.positions[unit.targetId]
                 range == unit.data.range
                 effectiveRange == Max(range, 1)
             IN  IF FartherThan(targetPos.x - pos.x, targetPos.y - pos.y,
                                10 * effectiveRange + 5, PosUnit(w))
                 THEN [moveUnit(w, entityId, [x |-> targetPos.x, y |-> targetPos.y])
                          EXCEPT !.em = setUnitState(@, entityId, "attacking")]
                 ELSE IF unit.attackCooldown <= 0
                 THEN LET Rearm(w1) ==
                              IF entityId \in DOMAIN w1.em.units
                              THEN [w1 EXCEPT !.em.units[entityId].attackCooldown =
                                                  unit.data.attackSpeed * 1000 * TICK_RATE]
                              ELSE w1
                      IN  Rearm(IF range > 1
                                THEN createProjectile(w, entityId, unit.targetId, pos.x, pos.y,
                                                      targetPos.x, targetPos.y, unit.data.attack)
                                ELSE dealDamage(w, entityId, unit.targetId))
                 ELSE w

\* the first entity in range that belongs to another player, if any
updateIdle(w, entityId) ==
    LET unit == w.em.units[entityId]
        pos  == w.em.positions[entityId]
        attackRange == Max(unit.data.range, 1) + 2
        enemies == getEntitiesInReach(w, pos.x, pos.y, attackRange)
        IsEnemy(id) == /\ getOwner(w.em, id) # getOwner(w.em, entityId)
                       /\ getOwner(w.em, id) # -1
                       /\ (isUnit(w.em, id) \/ isBuilding(w.em, id))
        hits == {i \in 1..Len(enemies) : IsEnemy(enemies[i])}
    IN  IF hits = {} THEN w
        ELSE attackUnit(w, entityId, enemies[CHOOSE i \in hits : \A j \in hits : i <= j])

\* the distance below which a waypoint counts as reached, in tenths of a tile
ARRIVE_THRESHOLD_TENTHS == 3

\* (d / dist) * Math.min(speed, dist) for the component d of the way to the waypoint,
\* with speed = stepLen and across the other component.  It is exact when the move
\* reaches the waypoint and along an axis (across = 0); elsewhere the quotient is cut to
\* a whole step.
Along(d, across, stepLen) ==
    IF d = 0 THEN 0
    ELSE IF across = 0
    THEN (IF stepLen >= Abs(d) THEN d ELSE IF d < 0 THEN -stepLen ELSE stepLen)
    ELSE IF stepLen * stepLen >= d * d + across * across THEN d
    ELSE IF d < 0 THEN -(((-d) * stepLen) \div Isqrt(d * d + across * across))
    ELSE (d * stepLen) \div Isqrt(d * d + across * across)

\* dist < k / 10 tiles for the distance dist of (dx, dy) steps, with u steps per tile:
\* 100 * (dx * dx + dy * dy) < k * k * u * u, computed without leaving 32 bits
CloserThan(dx, dy, k, u) ==
    /\ 10 * Abs(dx) < k * u
    /\ 10 * Abs(dy) < k * u
    /\ dx * dx + dy * dy < k * k * ((u * u) \div 100) + CeilDiv(k * k * ((u * u) % 100), 100)

\* updateMoving with dt = 1 / TICK_RATE seconds: speed = unit.data.speed * dt * 0.001
\* tiles is unit.data.speed * u / (1000 * TICK_RATE) steps
updateMoving(w, entityId) ==
    IF entityId \notin DOMAIN w.em.units \/ entityId \notin DOMAIN w.em.positions THEN w
    ELSE LET unit == w.em.units[entityId]
             pos  == w.em.positions[entityId]
             u    == PosUnit(w)
         IN  IF Len(unit.path) = 0 \/ unit.pathIndex >= Len(unit.path)
             THEN [w EXCEPT !.em = setUnitState(@, entityId, "idle")]
             ELSE LET target == unit.path[unit.pathIndex + 1]
                      dx == target.x - pos.x
                      dy == target.y - pos.y
                      stepLen == (unit.data.speed * u) \div (1000 * TICK_RATE)
                  IN  IF CloserThan(dx, dy, ARRIVE_THRESHOLD_TENTHS, u)
                      THEN [w EXCEPT !.em.units[entityId].pathIndex = @ + 1,
                                     !.em.units[entityId].state =
                                         IF unit.pathIndex + 1 >= Len(unit.path)
                                         THEN "idle" ELSE @]
                      ELSE [w EXCEPT !.em = setPositionAt(
                                                @, entityId,
                                                pos.x + Along(dx, dy, stepLen),
                                                pos.y + Along(dy, dx, stepLen), u)]

\* updatePatrolling
updatePatrolling(w, entityId) ==
    LET unit == w.em.units[entityId]
        pos  == w.em.positions[entityId]
        u    == PosUnit(w)
        los  == IF "lineOfSight" \in DOMAIN unit.data THEN unit.data.lineOfSight ELSE 6
        enemies == getEntitiesInReach(w, pos.x, pos.y, los)
        IsEnemy(id) == /\ getOwner(w.em, id) # getOwner(w.em, entityId)
                       /\ getOwner(w.em, id) # -1
                       /\ isUnit(w.em, id)
        hits == {i \in 1..Len(enemies) : IsEnemy(enemies[i])}
        Patrolling(w1) == [w1 EXCEPT !.em = setUnitState(@, entityId, "patrolling")]
    IN  IF hits # {}
        THEN attackUnit(w, entityId, enemies[CHOOSE i \in hits : \A j \in hits : i <= j])
        ELSE IF Len(unit.patrolPoints) = 0
        THEN [w EXCEPT !.em = setUnitState(@, entityId, "idle")]
        ELSE LET target == unit.patrolPoints[unit.patrolIndex + 1]
                 dx == target.x - pos.x
                 dy == target.y - pos.y
                 next == (unit.patrolIndex + 1) % Len(unit.patrolPoints)
             IN  IF CloserThan(dx, dy, 10, u)
                 THEN Patrolling(moveUnit([w EXCEPT !.em.units[entityId].patrolIndex = next],
                                          entityId, unit.patrolPoints[next + 1]))
                 ELSE IF Len(unit.path) = 0
                 THEN Patrolling(moveUnit(w, entityId, target))
                 ELSE Patrolling(updateMoving(w, entityId))

\* BUILD_RANGE and GATHER_RANGE, in tenths of a tile
BUILD_RANGE_TENTHS == 20

GATHER_RANGE_TENTHS == 15

buildStructure(w, entityId, targetId) ==
    [w EXCEPT !.em = setUnitTarget(setUnitState(@, entityId, "building"),
                                   entityId, targetId, Absent)]

\* updateBuilding.  targetHP = floor(data.hp * buildProgress) is taken of the exact
\* product; the sum of doubles the code keeps can fall an ulp short of it.
updateBuilding(w, entityId) ==
    LET unit == w.em.units[entityId]
        pos  == w.em.positions[entityId]
        Idle == [w EXCEPT !.em = setUnitState(@, entityId, "idle")]
    IN  IF unit.targetId = NoId THEN Idle
        ELSE IF ~entityExists(w.em, unit.targetId) THEN Idle
        ELSE IF unit.targetId \notin DOMAIN w.em.positions THEN w
        ELSE LET targetPos == w.em.positions[unit.targetId] IN
             IF FartherThan(targetPos.x - pos.x, targetPos.y - pos.y, BUILD_RANGE_TENTHS,
                            PosUnit(w))
             THEN [moveUnit(w, entityId, [x |-> targetPos.x, y |-> targetPos.y])
                      EXCEPT !.em = setUnitState(@, entityId, "building")]
             ELSE IF unit.targetId \notin DOMAIN w.em.buildings THEN w
             ELSE LET building == w.em.buildings[unit.targetId]
                      progress == Min(BuildSteps(building.data), building.buildProgress + 1)
                      targetHP == (building.data.hp * progress) \div BuildSteps(building.data)
                      currentHP == IF unit.targetId \in DOMAIN w.em.health
                                   THEN w.em.health[unit.targetId].hp ELSE 0
                      e1 == [w.em EXCEPT !.buildings[unit.targetId].buildProgress = progress]
                      e2 == IF targetHP > currentHP THEN setHP(e1, unit.targetId, targetHP)
                            ELSE e1
                  IN  IF building.isComplete THEN Idle
                      ELSE IF progress >= BuildSteps(building.data)
                      THEN [w EXCEPT !.em = setUnitState(
                                                setHP([e2 EXCEPT
                                                          !.buildings[unit.targetId].isComplete
                                                              = TRUE],
                                                      unit.targetId, building.data.hp),
                                                entityId, "idle")]
                      ELSE [w EXCEPT !.em = e2]

\* updateRepairing
updateRepairing(w, entityId) ==
    LET unit == w.em.units[entityId]
        pos  == w.em.positions[entityId]
        Idle == [w EXCEPT !.em = setUnitState(@, entityId, "idle")]
    IN  IF unit.targetId = NoId THEN Idle
        ELSE IF ~entityExists(w.em, unit.targetId) THEN Idle
        ELSE IF unit.targetId \notin DOMAIN w.em.positions THEN w
        ELSE LET targetPos == w.em.positions[unit.targetId]
                 hp    == IF unit.targetId \in DOMAIN w.em.health
                          THEN w.em.health[unit.targetId].hp ELSE 0
                 maxHP == IF unit.targetId \in DOMAIN w.em.health
                          THEN w.em.health[unit.targetId].maxHp ELSE 0
             IN  IF FartherThan(targetPos.x - pos.x, targetPos.y - pos.y,
                                BUILD_RANGE_TENTHS, PosUnit(w))
                 THEN [moveUnit(w, entityId, [x |-> targetPos.x, y |-> targetPos.y])
                          EXCEPT !.em = setUnitState(@, entityId, "repairing")]
                 ELSE IF hp >= maxHP THEN Idle
                 ELSE [w EXCEPT !.em = setHP(@, unit.targetId, hp + 1)]

\* CombatSystem.dealAreaDamage.  finalDamage = max(1, floor(damage * (1 - dist / radius)))
\* is damage less the least m with m * radius >= damage * dist, but at least 1.
RECURSIVE AreaDamageEach(_, _, _, _, _, _, _)
AreaDamageEach(w, targets, x, y, radius, dmg, attackerId) ==
    IF targets = << >> THEN w
    ELSE LET targetId == Head(targets)
             u == PosUnit(w)
             d2 == IF targetId \in DOMAIN w.em.positions
                   THEN (w.em.positions[targetId].x - x) * (w.em.positions[targetId].x - x)
                        + (w.em.positions[targetId].y - y) * (w.em.positions[targetId].y - y)
                   ELSE -1
             lost == CHOOSE m \in 0..dmg :
                         /\ m * radius * u * m * radius * u >= dmg * dmg * d2
                         /\ \A n \in 0..(m - 1) :
                                n * radius * u * n * radius * u < dmg * dmg * d2
             final == IF d2 < 0 THEN 1 ELSE Max(1, dmg - lost)
             d == damage(w.em, targetId, final)
             Hit == IF d.killed
                    THEN handleEntityKill([w EXCEPT !.em = d.e], attackerId, targetId)
                    ELSE [w EXCEPT !.em = d.e]
         IN  AreaDamageEach(IF \/ getOwner(w.em, targetId) = getOwner(w.em, attackerId)
                               \/ getOwner(w.em, targetId) = -1
                            THEN w ELSE Hit,
                            Tail(targets), x, y, radius, dmg, attackerId)

dealAreaDamage(w, x, y, radius, dmg, attackerId) ==
    AreaDamageEach(w, getEntitiesInReach(w, x, y, radius), x, y, radius, dmg, attackerId)

\* ResourceSystem.addResource; the gather-rate multipliers are 1 (see ResourceSystem below)
addResource(w, playerId, type, amount) ==
    IF playerId \notin DOMAIN w.players THEN w
    ELSE [w EXCEPT !.players[playerId].resources[type] = @ + amount]

\* getNearestDropoff: the first, in the order of the buildings table, of the complete
\* buildings of the owner that take the resource and lie nearest to (x, y); NoId if none
getNearestDropoff(e, x, y, resourceType, ownerId) ==
    LET takes == {id \in DOMAIN e.buildings :
                     /\ getOwner(e, id) = ownerId
                     /\ e.buildings[id].isComplete
                     /\ "isDropoff" \in DOMAIN e.buildings[id].data
                     /\ resourceType \in e.buildings[id].data.isDropoff
                     /\ id \in DOMAIN e.positions}
        D2(id) == (e.positions[id].x - x) * (e.positions[id].x - x)
                      + (e.positions[id].y - y) * (e.positions[id].y - y)
    IN  IF takes = {} THEN NoId
        ELSE CHOOSE id \in takes :
                 \A other \in takes : D2(id) < D2(other) \/ (D2(id) = D2(other) /\ id <= other)

\* gatherCooldown = 2000 after a harvest; UnitSystem.update takes dt = 1 / TICK_RATE from
\* it every tick, so it is counted here in ticks
GATHER_COOLDOWN == 2000

CARRY_CAPACITY == 10

DROPOFF_RANGE_TENTHS == 20

\* updateGathering.  A tile without a resource has resourceType = None.
updateGathering(w, entityId) ==
    LET unit == w.em.units[entityId]
        pos  == w.em.positions[entityId]
        u    == PosUnit(w)
        Gathering(w1) == [w1 EXCEPT !.em = setUnitState(@, entityId, "gathering")]
        Idle(w1) == [w1 EXCEPT !.em = setUnitState(@, entityId, "idle")]
    IN  IF unit.carryAmount >= CARRY_CAPACITY
           \/ (unit.carryAmount > 0 /\ unit.targetId = NoId /\ unit.targetPos = Absent)
        THEN LET dropoff == getNearestDropoff(w.em, pos.x, pos.y, unit.carryType,
                                              getOwner(w.em, entityId))
             IN  IF dropoff = NoId THEN w
                 ELSE LET dropoffPos == w.em.positions[dropoff] IN
                      IF CloserThan(dropoffPos.x - pos.x, dropoffPos.y - pos.y,
                                    DROPOFF_RANGE_TENTHS, u)
                      THEN LET w1 == addResource(w, getOwner(w.em, entityId), unit.carryType,
                                                 unit.carryAmount)
                               w2 == [w1 EXCEPT !.em.units[entityId].carryAmount = 0,
                                                !.em.units[entityId].carryType = None]
                           IN  IF unit.targetPos # Absent
                               THEN Gathering(moveUnit(w2, entityId, unit.targetPos[1]))
                               ELSE Idle(w2)
                      ELSE Gathering(moveUnit(w, entityId,
                                              [x |-> dropoffPos.x, y |-> dropoffPos.y]))
        ELSE IF unit.targetId # NoId /\ ~entityExists(w.em, unit.targetId)
        THEN Idle([w EXCEPT !.em.units[entityId].targetId = NoId])
        ELSE IF unit.targetId # NoId /\ unit.targetId \notin DOMAIN w.em.positions THEN w
        ELSE IF unit.targetId = NoId /\ unit.targetPos = Absent THEN Idle(w)
        ELSE LET gather == IF unit.targetId # NoId
                           THEN [x |-> w.em.positions[unit.targetId].x,
                                 y |-> w.em.positions[unit.targetId].y]
                           ELSE unit.targetPos[1]
                 t == <<gather.x \div u, gather.y \div u>>
                 onTile == /\ t \in DOMAIN w.game.map.tiles
                           /\ "resourceType" \in DOMAIN w.game.map.tiles[t]
                           /\ w.game.map.tiles[t].resourceType # None
                           /\ w.game.map.tiles[t].resourceAmount > 0
                 Carry(w1, type) ==
                     [w1 EXCEPT !.em.units[entityId].carryType = type,
                                !.em.units[entityId].carryAmount = @ + 1,
                                !.em.units[entityId].gatherCooldown =
                                    GATHER_COOLDOWN * TICK_RATE]
             IN  IF FartherThan(gather.x - pos.x, gather.y - pos.y, GATHER_RANGE_TENTHS, u)
                 THEN Gathering(moveUnit(w, entityId, gather))
                 ELSE IF unit.gatherCooldown > 0 THEN w
                 ELSE IF onTile
                 THEN LET tile == w.game.map.tiles[t]
                          left == tile.resourceAmount - 1
                      IN  Carry([w EXCEPT !.game.map.tiles[t] =
                                     IF left > 0 THEN [tile EXCEPT !.resourceAmount = left]
                                     ELSE [tile EXCEPT !.resourceAmount = left,
                                                       !.resourceType = None,
                                                       !.walkable =
                                                           IF "terrain" \in DOMAIN tile
                                                              /\ tile.terrain = "forest"
                                                           THEN TRUE ELSE @,
                                                       !.buildable =
                                                           IF "terrain" \in DOMAIN tile
                                                              /\ tile.terrain = "forest"
                                                           THEN TRUE ELSE @]],
                                tile.resourceType)
                 ELSE IF unit.targetId # NoId /\ unit.targetId \in DOMAIN w.em.resources
                         /\ w.em.resources[unit.targetId].amount > 0
                 THEN Carry([w EXCEPT !.em = harvestResource(@, unit.targetId, 1).e],
                            w.em.resources[unit.targetId].resourceType)
                 ELSE Idle(w)

\* one unit's turn in UnitSystem.update.  A dead or garrisoned unit has no case.
updateUnit(w, entityId) ==
    IF entityId \notin DOMAIN w.em.units \/ entityId \notin DOMAIN w.em.positions THEN w
    ELSE LET state == w.em.units[entityId].state
             Cooldowns(w1) ==
                 IF entityId \notin DOMAIN w1.em.units THEN w1
                 ELSE [w1 EXCEPT !.em.units[entityId].attackCooldown =
                                     IF @ > 0 THEN @ - 1 ELSE @,
                                 !.em.units[entityId].gatherCooldown =
                                     IF @ > 0 THEN @ - 1 ELSE @]
         IN  Cooldowns(CASE state = "moving"     -> updateMoving(w, entityId)
                         [] state = "attacking"  -> updateAttacking(w, entityId)
                         [] state = "gathering"  -> updateGathering(w, entityId)
                         [] state = "building"   -> updateBuilding(w, entityId)
                         [] state = "repairing"  -> updateRepairing(w, entityId)
                         [] state = "patrolling" -> updatePatrolling(w, entityId)
                         [] state = "idle"       -> updateIdle(w, entityId)
                         [] OTHER                -> w)

RECURSIVE UpdateUnits(_, _)
UpdateUnits(w, ids) ==
    IF ids = << >> THEN w
    ELSE IF Head(ids) \notin DOMAIN w.em.units \/ Head(ids) \notin DOMAIN w.em.positions
    THEN UpdateUnits(w, Tail(ids))
    ELSE UpdateUnits(updateUnit(w, Head(ids)), Tail(ids))

\* UnitSystem.update: every unit of getAllUnits(), in the order of the entities table
unitSystemUpdate(w) ==
    UpdateUnits(w, IdSeq({id \in DOMAIN w.em.entities : w.em.entities[id].type = "unit"}))

\* ---------------------------------------------------------------------
\* BuildingSystem: training and research orders
\* ---------------------------------------------------------------------
canAfford(ps, playerId, cost) ==
    /\ playerId \in DOMAIN ps
    /\ \A r \in DOMAIN cost : ps[playerId].resources[r] >= cost[r]

deductCost(ps, playerId, cost) ==
    IF playerId \notin DOMAIN ps THEN ps
    ELSE [ps EXCEPT ![playerId].resources =
             [r \in DOMAIN @ |-> IF r \in DOMAIN cost THEN @[r] - cost[r] ELSE @[r]]]

RECURSIVE SumOver(_, _)
SumOver(f, S) == IF S = {} THEN 0
                 ELSE LET k == CHOOSE k \in S : TRUE IN f[k] + SumOver(f, S \ {k})

getPopulation(e, ownerId) ==
    SumOver([id \in DOMAIN e.units |-> e.units[id].data.populationCost],
            {id \in DOMAIN e.units : getOwner(e, id) = ownerId})

POPULATION_LIMIT == 200

\* getPopulationCap that counts the buildings under construction too
getPopulationCap_countsSites(e, ownerId) ==
    Min(SumOver([id \in DOMAIN e.buildings |-> e.buildings[id].data.populationProvided],
                {id \in DOMAIN e.buildings : getOwner(e, id) = ownerId}),
        POPULATION_LIMIT)

getPopulationCap(e, ownerId) ==
    Min(SumOver([id \in DOMAIN e.buildings |-> e.buildings[id].data.populationProvided],
                {id \in DOMAIN e.buildings :
                    getOwner(e, id) = ownerId /\ e.buildings[id].isComplete}),
        POPULATION_LIMIT)

trainUnit_noPopulationCheck(w, buildingId, unitId, playerId) ==
    LET Refused == [w |-> w, ok |-> FALSE] IN
    IF buildingId \notin DOMAIN w.em.buildings THEN Refused
    ELSE IF ~w.em.buildings[buildingId].isComplete THEN Refused
    ELSE IF unitId \notin w.em.buildings[buildingId].data.trains THEN Refused
    ELSE IF unitId \notin DOMAIN UNITS THEN Refused
    ELSE IF ~canAfford(w.players, playerId, UNITS[unitId].cost) THEN Refused
    ELSE LET Queued(added) ==
                 [w  |-> [w EXCEPT !.players = deductCost(@, playerId, UNITS[unitId].cost),
                                   !.em = added.e],
                  ok |-> added.ok]
         IN  Queued(addToTrainingQueue(w.em, buildingId, unitId))

\* trainUnit returns [w |-> the world afterwards, ok |-> the boolean returned].  The
\* cost is deducted before addToTrainingQueue decides whether the order is queued.
trainUnit(w, buildingId, unitId, playerId) ==
    LET Refused == [w |-> w, ok |-> FALSE] IN
    IF buildingId \notin DOMAIN w.em.buildings THEN Refused
    ELSE IF ~w.em.buildings[buildingId].isComplete THEN Refused
    ELSE IF unitId \notin w.em.buildings[buildingId].data.trains THEN Refused
    ELSE IF unitId \notin DOMAIN UNITS THEN Refused
    ELSE IF getPopulation(w.em, playerId) + UNITS[unitId].populationCost
                > getPopulationCap(w.em, playerId) THEN Refused
    ELSE IF ~canAfford(w.players, playerId, UNITS[unitId].cost) THEN Refused
    ELSE LET Queued(added) ==
                 [w  |-> [w EXCEPT !.players = deductCost(@, playerId, UNITS[unitId].cost),
                                   !.em = added.e],
                  ok |-> added.ok]
         IN  Queued(addToTrainingQueue(w.em, buildingId, unitId))

RESEARCH_TIME == 30

addToResearchQueue(e, id, techId, researchTime) ==
    IF id \notin DOMAIN e.buildings \/ ~e.buildings[id].isComplete THEN e
    ELSE IF Len(e.buildings[id].researchQueue) >= 1 THEN e
    ELSE [e EXCEPT !.buildings[id].researchQueue =
             Append(@, [techId |-> techId, progress |-> 0, totalTime |-> researchTime])]

research(w, buildingId, techId, playerId) ==
    IF buildingId \notin DOMAIN w.em.buildings THEN w
    ELSE IF ~w.em.buildings[buildingId].isComplete THEN w
    ELSE IF techId \notin w.em.buildings[buildingId].data.researches THEN w
    ELSE IF playerId \in DOMAIN w.players /\ techId \in w.players[playerId].researchedTechs
    THEN w
    ELSE [w EXCEPT !.em = addToResearchQueue(@, buildingId, techId,
                                                  RESEARCH_TIME * 1000 * TICK_RATE)]

\* ---------------------------------------------------------------------
\* BuildingSystem.update.  progress is raised by dt / 1000 with dt = 1 / TICK_RATE: the
\* model keeps progress and totalTime in units of that step (a research time of
\* RESEARCH_TIME seconds is RESEARCH_TIME * 1000 * TICK_RATE steps).
\* ---------------------------------------------------------------------
processTrainingQueue(w, buildingId) ==
    IF buildingId \notin DOMAIN w.em.buildings THEN w
    ELSE IF w.em.buildings[buildingId].trainingQueue = << >> THEN w
    ELSE LET building == w.em.buildings[buildingId]
             current  == [Head(building.trainingQueue) EXCEPT !.progress = @ + 1]
             w1 == [w EXCEPT !.em.buildings[buildingId].trainingQueue[1] = current]
         IN  IF current.progress >= current.totalTime
             THEN LET w2 ==
                        IF buildingId \notin DOMAIN w1.em.positions THEN w1
                        ELSE LET pos == w1.em.positions[buildingId]
                                 spawnPos == IF building.rallyPoint # Absent
                                             THEN building.rallyPoint[1]
                                             ELSE [x |-> pos.x + building.data.size.x,
                                                   y |-> pos.y + building.data.size.y]
                                 actualPos == findSpawnPosition(w1.game.map, spawnPos.x, spawnPos.y)
                                 unitId == w1.em.nextEntityId
                                 w3 == [w1 EXCEPT !.em = createUnit(@, UNITS[current.unitId],
                                                           getOwner(w1.em, buildingId),
                                                           actualPos.x, actualPos.y)]
                             IN  IF building.rallyPoint # Absent
                                 THEN moveUnit(w3, unitId, building.rallyPoint[1]) ELSE w3
                  IN  [w2 EXCEPT !.em.buildings[buildingId].trainingQueue = Tail(@)]
             ELSE w1

processResearchQueue(w, buildingId) ==
    IF buildingId \notin DOMAIN w.em.buildings THEN w
    ELSE IF w.em.buildings[buildingId].researchQueue = << >> THEN w
    ELSE LET current == [Head(w.em.buildings[buildingId].researchQueue) EXCEPT !.progress = @ + 1]
             w1 == [w EXCEPT !.em.buildings[buildingId].researchQueue[1] = current]
             playerId == getOwner(w.em, buildingId)
         IN  IF current.progress >= current.totalTime
             THEN [w1 EXCEPT !.players =
                        IF playerId \in DOMAIN @
                        THEN [@ EXCEPT ![playerId].researchedTechs = @ \cup {current.techId}]
                        ELSE @,
                             !.em.buildings[buildingId].researchQueue = Tail(@)]
             ELSE w1

RECURSIVE UpdateBuildings(_, _)
UpdateBuildings(w, ids) ==
    IF ids = << >> THEN w
    ELSE LET id == Head(ids) IN
         UpdateBuildings(IF id \notin DOMAIN w.em.buildings \/ ~w.em.buildings[id].isComplete
                         THEN w
                         ELSE processResearchQueue(processTrainingQueue(w, id), id),
                         Tail(ids))

buildingSystemUpdate(w) ==
    UpdateBuildings(w, IdSeq({id \in DOMAIN w.em.entities : w.em.entities[id].type = "building"}))

\* ---------------------------------------------------------------------
\* Game: commands and the tick
\* ---------------------------------------------------------------------
\* a GameCommand; a field the command does not carry is NoId, Absent or None
Command(type, playerId, entityIds, targetId, position, what) ==
    [type |-> type, playerId |-> playerId, entityIds |-> entityIds, targetId |-> targetId,
     position |-> position, unitType |-> IF type = "train" THEN what ELSE None,
     techId |-> IF type = "research" THEN what ELSE None, tick |-> 0]

\* the body of executeCommand's loop over cmd.entityIds
CommandOn(w, cmd, eid) ==
    CASE cmd.type = "move"       -> moveUnit(w, eid, cmd.position[1])
      [] cmd.type = "attack"     -> attackUnit(w, eid, cmd.targetId)
      [] cmd.type = "gather"     ->
            IF cmd.targetId \in DOMAIN w.em.positions
            THEN gatherResource(w, eid, cmd.targetId,
                                Some([x |-> w.em.positions[cmd.targetId].x,
                                      y |-> w.em.positions[cmd.targetId].y]))
            ELSE w
      [] cmd.type = "garrison"   -> garrison(w, eid, cmd.targetId).w
      [] cmd.type = "patrol"     -> patrol(w, eid, <<cmd.position[1]>>)
      [] cmd.type = "repair"     -> repairStructure(w, eid, cmd.targetId)
      [] cmd.type = "deleteUnit" -> [w EXCEPT !.em = removeEntity(@, eid)]

RECURSIVE CommandOnEach(_, _, _)
CommandOnEach(w, cmd, ids) ==
    IF ids = << >> THEN w ELSE CommandOnEach(CommandOn(w, cmd, Head(ids)), cmd, Tail(ids))

\* entityIds[0]
FirstId(cmd) == IF cmd.entityIds = << >> THEN NoId ELSE cmd.entityIds[1]

\* executeCommand, for the command types the specifications below issue (Build,
\* SetDiplomacy and Resign belong to the economy and diplomacy models)
executeCommand(w, cmd) ==
    CASE cmd.type \in {"move", "patrol"} ->
            IF cmd.position # Absent THEN CommandOnEach(w, cmd, cmd.entityIds) ELSE w
      [] cmd.type \in {"attack", "gather", "garrison", "repair"} ->
            IF cmd.targetId # NoId THEN CommandOnEach(w, cmd, cmd.entityIds) ELSE w
      [] cmd.type = "deleteUnit" -> CommandOnEach(w, cmd, cmd.entityIds)
      [] cmd.type = "train" ->
            IF cmd.unitType # None
            THEN trainUnit(w, FirstId(cmd), cmd.unitType, cmd.playerId).w ELSE w
      [] cmd.type = "research" ->
            IF cmd.techId # None THEN research(w, FirstId(cmd), cmd.techId, cmd.playerId)
            ELSE w
      [] cmd.type = "ungarrison" -> ungarrison(w, FirstId(cmd))
      [] OTHER -> w

RECURSIVE ExecuteAll(_, _)
ExecuteAll(w, cmds) ==
    IF cmds = << >> THEN w ELSE ExecuteAll(executeCommand(w, Head(cmds)), Tail(cmds))

processCommands(w) ==
    ExecuteAll([w EXCEPT !.game.commandQueue = << >>], w.game.commandQueue)

\* ---------------------------------------------------------------------
\* FogOfWar.  A table of the class (visibility, explored) is kept as the set of the
\* tiles whose byte is 1, per tracked player.  updateTimer is in milliseconds.  passes
\* counts the runs of computeVisibility: it is read by properties only.
\* ---------------------------------------------------------------------
UPDATE_INTERVAL == 200

\* FogOfWar.init(mapWidth, mapHeight, playerIds) on a new FogOfWar
fogOfWarInit(mapWidth, mapHeight, playerIds) ==
    [width |-> mapWidth, height |-> mapHeight,
     visibility |-> [p \in playerIds |-> {}],
     explored   |-> [p \in playerIds |-> {}],
     updateTimer |-> 0, passes |-> 0]

\* revealCircle(vis, exp, cx, cy, radius) on the tables of one player
revealCircle(fog, playerId, cx, cy, radius) ==
    LET r2 == radius * radius
        offsets == {d \in (-radius..radius) \X (-radius..radius) :
                        ~(d[1] * d[1] + d[2] * d[2] > r2)}
        tiles == {t \in {<<cx + d[1], cy + d[2]>> : d \in offsets} :
                      ~(t[1] < 0 \/ t[1] >= fog.width \/ t[2] < 0 \/ t[2] >= fog.height)}
    IN  [fog EXCEPT !.visibility[playerId] = @ \cup tiles,
                    !.explored[playerId] = @ \cup tiles]

\* the radius computeVisibility gives an entity
lineOfSightOf(e, id) ==
    IF id \in DOMAIN e.units
    THEN IF "lineOfSight" \in DOMAIN e.units[id].data THEN e.units[id].data.lineOfSight ELSE 6
    ELSE IF id \in DOMAIN e.buildings THEN 8
    ELSE 4

RECURSIVE RevealEntities(_, _, _)
RevealEntities(fog, e, ids) ==
    IF ids = << >> THEN fog
    ELSE LET id == Head(ids)
             owner == getOwner(e, id)
         IN  IF \/ id \notin DOMAIN e.positions
                \/ owner = -1
                \/ owner \notin DOMAIN fog.visibility
             THEN RevealEntities(fog, e, Tail(ids))
             ELSE RevealEntities(revealCircle(fog, owner, e.positions[id].x,
                                              e.positions[id].y, lineOfSightOf(e, id)),
                                 e, Tail(ids))

\* computeVisibility that keeps the visibility tables of the last pass
computeVisibility_keepVisible(fog, e) ==
    RevealEntities([fog EXCEPT !.passes = @ + 1], e, IdSeq(DOMAIN e.entities))

\* computeVisibility: the visibility tables are cleared, the explored tables are kept,
\* and every entity of a tracked player reveals its circle.  Positions are whole tiles
\* in the worlds this is run on, so Math.floor leaves them as they are.
computeVisibility(fog, e) ==
    RevealEntities([fog EXCEPT !.visibility = [p \in DOMAIN @ |-> {}], !.passes = @ + 1],
                   e, IdSeq(DOMAIN e.entities))

\* FogOfWar.update(dt), with dt * 1000 passed as ms
fogOfWarUpdate(w, ms) ==
    LET timer == w.game.fog.updateTimer + ms IN
    IF timer < UPDATE_INTERVAL THEN [w EXCEPT !.game.fog.updateTimer = timer]
    ELSE [w EXCEPT !.game.fog = computeVisibility([@ EXCEPT !.updateTimer = 0], w.em)]

\* getTileVisibility(x, y, playerId): 0 = hidden, 1 = explored, 2 = visible
getTileVisibility(fog, x, y, playerId) ==
    IF x < 0 \/ x >= fog.width \/ y < 0 \/ y >= fog.height THEN 0
    ELSE IF playerId \notin DOMAIN fog.visibility THEN 2
    ELSE IF <<x, y>> \in fog.visibility[playerId] THEN 2
    ELSE IF <<x, y>> \in fog.explored[playerId] THEN 1
    ELSE 0

\* the period of the victory check, in seconds
VICTORY_CHECK_SECONDS == 5

checkVictoryConditions(w) ==
    IF w.game.tick % (TICK_RATE * VICTORY_CHECK_SECONDS) # 0 THEN w
    ELSE IF Cardinality({p \in DOMAIN w.players : ~w.players[p].isDefeated}) <= 1
    THEN [w EXCEPT !.game.phase = "ended"]
    ELSE w

\* Game.update running the combat system before the building system
UpdateOrder_combatFirst ==
    <<"processCommands", "unitSystem", "combatSystem", "buildingSystem", "resourceSystem",
      "fogOfWar", "aiController", "hudManager", "checkVictoryConditions">>

\* the systems Game.update runs, in the order it calls them
UpdateOrder ==
    <<"processCommands", "unitSystem", "buildingSystem", "resourceSystem", "combatSystem",
      "fogOfWar", "aiController", "hudManager", "checkVictoryConditions">>

\* one call of Game.update.  resourceSystem.update has no effect (its trade cart loop is
\* empty), aiController.update has none without an AI player, and hudManager draws.
\* fogOfWar.update is called with this.localPlayerId where the other systems get dt.  A
\* game record without a fog field is one whose FogOfWar has no tables (init was not
\* called): its update changes nothing but its own timer.
runSystem(w, name) ==
    CASE name = "processCommands"        -> processCommands(w)
      [] name = "unitSystem"             -> unitSystemUpdate(w)
      [] name = "buildingSystem"         -> buildingSystemUpdate(w)
      [] name = "combatSystem"           -> updateProjectiles(w)
      [] name = "fogOfWar"               -> IF "fog" \in DOMAIN w.game
                                            THEN fogOfWarUpdate(w, w.game.localPlayerId * 1000)
                                            ELSE w
      [] name = "checkVictoryConditions" -> checkVictoryConditions(w)
      [] OTHER                           -> w

RECURSIVE RunSystems(_, _)
RunSystems(w, names) ==
    IF names = << >> THEN w ELSE RunSystems(runSystem(w, Head(names)), Tail(names))

update(w) == IF w.game.phase # "playing" THEN w ELSE RunSystems(w, UpdateOrder)

\* one turn of gameLoop's while loop: update, then tick++
gameLoopStep(w) == [update(w) EXCEPT !.game.tick = @ + 1]

\* ---------------------------------------------------------------------
\* A skirmish: two soldiers of player 1 (ids 1 and 3) on either side of a soldier of
\* player 2 (id 2), next to a house of player 2 under construction (id 4).  The stats of
\* soldier 1 and the armor of soldier 2 are drawn from small sets.  Every step is one
\* pass of gameLoop's loop (with the commands issued since the previous one) or a
\* setTimeout callback coming due between two frames.
\* ---------------------------------------------------------------------
MaxStat == 2        \* attack and armor values are drawn from 0..MaxStat

MaxTicks == 5       \* ticks of a skirmish

Tiles(width, height) == (0..(width - 1)) \X (0..(height - 1))

\* a map with every tile walkable, as placeBuilding leaves it after the house was placed
SkirmishMap ==
    [width |-> 4, height |-> 3,
     tiles |-> [t \in Tiles(4, 3) |->
                  [walkable |-> TRUE,
                   buildable |-> ~(t[1] \in {1, 2} /\ t[2] \in {1, 2})]]]

AttackerStats ==
    {[UNITS.militia EXCEPT !.attack = a, !.range = r, !.bonusDamage = b] :
        a \in 0..MaxStat, r \in {0, 2},
        b \in {NoBonus, [c \in {"infantry"} |-> 1]}}

DefenderStats ==
    {[UNITS.militia EXCEPT !.hp = 2, !.meleeArmor = m, !.pierceArmor = MaxStat - m] :
        m \in 0..MaxStat}

SkirmishStore(attacker, defender) ==
    createBuilding(
        createUnit(
            createUnit(
                createUnit(EmInit, attacker, 1, 0, 0),
                defender, 2, 1, 0),
            UNITS.militia, 1, 2, 0),
        BUILDINGS.house, 2, 1, 1, FALSE)

SkirmishGame ==
    [tick |-> 0, phase |-> "playing", commandQueue |-> << >>, pc |-> 0, map |-> SkirmishMap]

\* the commands the players may issue between two ticks: none, soldier 3 attacks the
\* house, or player 1 deletes soldier 1
SkirmishBatches ==
    {<< >>,
     <<Command("attack", 1, <<3>>, 4, Absent, None)>>,
     <<Command("deleteUnit", 1, <<1>>, NoId, Absent, None)>>}

NoKills == [id \in 1..4 |-> 0]

\* the number of handleEntityKill calls the log holds for victim id
KillsIn(log, id) ==
    Cardinality({i \in 1..Len(log) : log[i].call = "handleEntityKill" /\ log[i].target = id})

\* hist.calls: the calls of dealDamage and handleEntityKill made by the last tick
\* hist.kills: for every entity, the number of handleEntityKill calls with it as victim
CombatInit ==
    /\ \E attacker \in AttackerStats, defender \in DefenderStats :
          em = SkirmishStore(attacker, defender)
    /\ players = NoPlayers
    /\ game = SkirmishGame
    /\ combat = NoCombat
    /\ twin = NoTwin
    /\ hist = [calls |-> << >>, kills |-> NoKills]

CombatTick ==
    \E cmds \in SkirmishBatches :
        /\ game.tick < MaxTicks
        /\ LET Becomes(w) ==
                   /\ em' = w.em
                   /\ players' = w.players
                   /\ game' = w.game
                   /\ combat' = w.combat
                   /\ hist' = [calls |-> w.log,
                               kills |-> [id \in DOMAIN hist.kills |->
                                             hist.kills[id] + KillsIn(w.log, id)]]
           IN  Becomes(gameLoopStep(World(em, players,
                                          [game EXCEPT !.commandQueue = cmds], combat)))
        /\ UNCHANGED twin

\* the setTimeout callback of the oldest kill comes due
TimerFires ==
    /\ combat.timers # << >>
    /\ em' = removeDeadUnit(em, Head(combat.timers))
    /\ combat' = [combat EXCEPT !.timers = Tail(@)]
    /\ UNCHANGED <<players, game, twin, hist>>

CombatNext == CombatTick \/ TimerFires

SpecCombat == CombatInit /\ [][CombatNext]_vars

\* ---------------------------------------------------------------------
\* Claims about combat (checked under SpecCombat)
\* ---------------------------------------------------------------------

\* C2 as stated: kill handling runs exactly once for an entity whose hit points reach 0:
\* never a second time, and once for every entity standing at 0 hit points.
C2_Original ==
    \A id \in DOMAIN hist.kills :
        /\ hist.kills[id] <= 1
        /\ (id \in DOMAIN em.health /\ em.health[id].hp = 0) => hist.kills[id] = 1

MaxGameTicks == 2   \* ticks of a session of the loop model

MaxQueue == 1       \* commands waiting in the queue, and in the inbox

DuelStore ==
    createUnit(createUnit(EmInit, UNITS.militia, 1, 0, 0),
               [UNITS.militia EXCEPT !.hp = 2, !.meleeArmor = 0], 2, 1, 0)

DuelMap ==
    [width |-> 3, height |-> 1,
     tiles |-> [t \in Tiles(3, 1) |-> [walkable |-> TRUE, buildable |-> TRUE]]]

\* the commands a player may issue: soldier 1 attacks soldier 2, soldier 2 is deleted
DuelCommands ==
    {Command("attack", 1, <<1>>, 2, Absent, None),
     Command("deleteUnit", 2, <<2>>, NoId, Absent, None)}

NoCommand == [tag |-> -1, at |-> -1, by |-> "none"]

\* hist.ran:     the systems the current (or last) Game.update has run, in order
\* hist.applied: the command executed last: its tick tag, the tick it was executed in
\*               and the caller of executeCommand
GameInit ==
    /\ em = DuelStore
    /\ players = NoPlayers
    /\ \E connected \in BOOLEAN :
          game = [tick |-> 0, phase |-> "playing", commandQueue |-> << >>, pc |-> 0,
                  map |-> DuelMap, connected |-> connected, inbox |-> << >>]
    /\ combat = NoCombat
    /\ twin = NoTwin
    /\ hist = [ran |-> << >>, applied |-> NoCommand]

\* Game.issueCommand
IssueCommand ==
    \E c \in DuelCommands :
        /\ game.pc = 0
        /\ LET cmd == [c EXCEPT !.tick = game.tick] IN
           IF game.connected
           THEN /\ Len(game.inbox) < MaxQueue
                /\ game' = [game EXCEPT !.inbox = Append(@, cmd)]
           ELSE /\ Len(game.commandQueue) < MaxQueue
                /\ game' = [game EXCEPT !.commandQueue = Append(@, cmd)]
        /\ UNCHANGED <<em, players, combat, twin, hist>>

\* NetworkClient.handleMessage on a GameCommand message carrying one command
HandleMessage ==
    /\ game.pc = 0
    /\ game.connected
    /\ game.inbox # << >>
    /\ LET cmd == Head(game.inbox)
           Becomes(w) ==
               /\ em' = w.em
               /\ players' = w.players
               /\ game' = w.game
               /\ combat' = w.combat
       IN  /\ Becomes(executeCommand(World(em, players, [game EXCEPT !.inbox = Tail(@)],
                                           combat), cmd))
           /\ hist' = [hist EXCEPT !.applied = [tag |-> cmd.tick, at |-> game.tick,
                                                by |-> "handleMessage"]]
    /\ UNCHANGED twin

\* gameLoop calls Game.update
StartUpdate ==
    /\ game.pc = 0
    /\ game.tick < MaxGameTicks
    /\ game.phase = "playing"
    /\ game' = [game EXCEPT !.pc = 1]
    /\ hist' = [hist EXCEPT !.ran = << >>]
    /\ UNCHANGED <<em, players, combat, twin>>

\* the next call in Game.update
RunSystem ==
    /\ game.pc \in 1..Len(UpdateOrder)
    /\ LET name == UpdateOrder[game.pc]
           Becomes(w) ==
               /\ em' = w.em
               /\ players' = w.players
               /\ game' = [w.game EXCEPT !.pc = @ + 1]
               /\ combat' = w.combat
       IN  /\ Becomes(runSystem(World(em, players, game, combat), name))
           /\ hist' = [ran |-> Append(hist.ran, name),
                       applied |-> IF name = "processCommands" /\ game.commandQueue # << >>
                                   THEN [tag |-> game.commandQueue[Len(game.commandQueue)].tick,
                                         at |-> game.tick, by |-> "processCommands"]
                                   ELSE hist.applied]
    /\ UNCHANGED twin

\* Game.update returns: tick++
EndUpdate ==
    /\ game.pc = Len(UpdateOrder) + 1
    /\ game' = [game EXCEPT !.pc = 0, !.tick = @ + 1]
    /\ UNCHANGED <<em, players, combat, twin, hist>>

\* a setTimeout callback comes due between two frames
GameTimerFires ==
    /\ game.pc = 0
    /\ TimerFires

GameNext ==
    \/ IssueCommand \/ HandleMessage \/ StartUpdate \/ RunSystem \/ EndUpdate
    \/ GameTimerFires

SpecGame == GameInit /\ [][GameNext]_vars

\* ---------------------------------------------------------------------
\* Claims about the game loop (checked under SpecGame)
\* ---------------------------------------------------------------------

\* C4 as stated: every command, issued locally or received from the network, is executed
\* inside processCommands, in the tick it is tagged for.
C4_Original ==
    hist.applied.by # "none" =>
        /\ hist.applied.by = "processCommands"
        /\ hist.applied.tag = hist.applied.at

\* the systems of `ran` that `order` names occur in ran in the order of `order`, once each
InOrder(ran, order) ==
    \A i, j \in 1..Len(ran) :
        (i < j /\ IndexOf(order, ran[i]) > 0 /\ IndexOf(order, ran[j]) > 0)
            => IndexOf(order, ran[i]) < IndexOf(order, ran[j])

\* C5 as stated: in every tick the commands are applied, then the unit state machine
\* advances, then the combat projectile update runs, then the training and research
\* queues advance, then fog of war.
C5_Original ==
    InOrder(hist.ran, <<"processCommands", "unitSystem", "combatSystem", "buildingSystem",
                        "fogOfWar">>)

\* C5 amended: in every tick the commands are applied, then the unit state machine
\* advances, then the training and research queues advance, then the combat projectile
\* update runs, then fog of war; and a tick that has run to its end has run all five.
C5_SystemOrder ==
    LET order == <<"processCommands", "unitSystem", "buildingSystem", "combatSystem",
                   "fogOfWar">> IN
    /\ InOrder(hist.ran, order)
    /\ game.pc = 0 /\ game.tick > 0 => \A i \in 1..Len(order) : Count(hist.ran, order[i]) = 1

\* C5 witness: a tick has run to its end after soldier 1 struck soldier 2
C5_Witness ==
    /\ game.pc = 0
    /\ game.tick > 0
    /\ Len(hist.ran) = Len(UpdateOrder)
    /\ 2 \in DOMAIN em.health /\ em.health[2].hp < em.health[2].maxHp

\* ---------------------------------------------------------------------
\* Commands that arrive late: the store is filled and emptied as under SpecStore, and
\* executeCommand runs commands that name an entity removed before
\* ---------------------------------------------------------------------
\* the commands of one entity, for the ids e (entityIds[0]) and t (targetId)
CommandsOf(e, t) ==
    {Command(type, 1, <<e>>, NoId, Some([x |-> 3, y |-> 3]), None) : type \in {"move", "patrol"}}
    \cup {Command(type, 1, <<e>>, t, Absent, None) :
            type \in {"attack", "gather", "garrison", "repair"}}
    \cup {Command(type, 1, <<e>>, NoId, Absent, None) : type \in {"ungarrison", "deleteUnit"}}
    \cup {Command("train", 1, <<e>>, NoId, Absent, "militia"),
          Command("research", 1, <<e>>, NoId, Absent, "forging")}

\* the commands that name an entity of `removed` as their entity or as their target
CommandsOnRemoved(removed) ==
    UNION {CommandsOf(e, t) : e \in removed, t \in Ids}
    \cup UNION {{c \in CommandsOf(e, t) : c.targetId = t} : e \in Ids, t \in removed}

ExecuteOnRemoved ==
    \E cmd \in CommandsOnRemoved(DOMAIN hist.removed) :
        LET Becomes(w) ==
                /\ em' = w.em
                /\ players' = w.players
                /\ game' = w.game
                /\ combat' = w.combat
        IN
        /\ Becomes(executeCommand(World(em, players, game, combat), cmd))
        /\ hist' = [hist EXCEPT !.miss = [op |-> cmd.type, id |-> NoId]]
        /\ UNCHANGED twin

CommandsNext ==
    \/ CreateUnit \/ CreateBuilding \/ CreateResource \/ RemoveEntity \/ ExecuteOnRemoved

SpecCommands == StoreInit /\ [][CommandsNext]_vars

\* C6 as stated: executing a Move, Attack, Gather, Garrison, Ungarrison, Repair, Patrol,
\* Train, Research or DeleteUnit command whose entity or target has been removed leaves
\* every entity component and every player's state unchanged.
C6_Original ==
    \A cmd \in CommandsOnRemoved(DOMAIN hist.removed) :
        LET Unchanged(w) == w.em = em /\ w.players = players IN
        Unchanged(executeCommand(World(em, players, game, combat), cmd))

\* ---------------------------------------------------------------------
\* The skirmish run twice from the same initial state with the same commands in the same
\* ticks.  The callbacks handleEntityKill hands to setTimeout come due after 1500 ms of
\* wall-clock time, which is a different number of ticks from run to run (gameLoop runs
\* as many ticks as the frame times and gameSpeed allow): each run's callbacks fire
\* between its ticks at times of their own.
\* ---------------------------------------------------------------------
RunOf(e, p, g, c) == [em |-> e, players |-> p, game |-> g, combat |-> c]

\* hist.afterTick: both runs have just finished the same tick
TwinInit ==
    /\ em = SkirmishStore(UNITS.militia, [UNITS.militia EXCEPT !.hp = 2, !.meleeArmor = 0])
    /\ players = NoPlayers
    /\ game = SkirmishGame
    /\ combat = NoCombat
    /\ twin = RunOf(em, players, game, combat)
    /\ hist = [afterTick |-> FALSE]

TwinTick ==
    \E cmds \in SkirmishBatches :
        /\ game.tick < MaxTicks
        /\ LET Becomes(w, v) ==
                   /\ em' = w.em
                   /\ players' = w.players
                   /\ game' = w.game
                   /\ combat' = w.combat
                   /\ twin' = RunOf(v.em, v.players, v.game, v.combat)
           IN  Becomes(gameLoopStep(World(em, players,
                                          [game EXCEPT !.commandQueue = cmds], combat)),
                       gameLoopStep(World(twin.em, twin.players,
                                          [twin.game EXCEPT !.commandQueue = cmds],
                                          twin.combat)))
        /\ hist' = [afterTick |-> TRUE]

\* the oldest callback of one of the runs comes due
TwinTimerFires ==
    \E run \in {1, 2} :
        /\ hist' = [afterTick |-> FALSE]
        /\ UNCHANGED <<players, game>>
        /\ IF run = 1
           THEN /\ combat.timers # << >>
                /\ em' = removeDeadUnit(em, Head(combat.timers))
                /\ combat' = [combat EXCEPT !.timers = Tail(@)]
                /\ UNCHANGED twin
           ELSE /\ twin.combat.timers # << >>
                /\ twin' = [twin EXCEPT !.em = removeDeadUnit(@, Head(twin.combat.timers)),
                                        !.combat.timers = Tail(@)]
                /\ UNCHANGED <<em, combat>>

TwinNext == TwinTick \/ TwinTimerFires

SpecTwin == TwinInit /\ [][TwinNext]_vars

\* C1 as stated: two runs with the same initial state and the same commands have identical
\* Player and Entity state after every tick, also after ticks in which units are killed
\* and later removed.
C1_Original ==
    hist.afterTick => (em = twin.em /\ players = twin.players)

\* ---------------------------------------------------------------------
\* Calls of findPath: on a 3 x 3 grid with up to MaxWalls unwalkable tiles, from every
\* tile (walkable or not) to every tile and to the tiles just beyond the right edge, with
\* small iteration limits and the default one; and on the open grid of side OpenSide with
\* the default limit
\* ---------------------------------------------------------------------
MaxWalls == 2       \* unwalkable tiles of a walled grid

OpenSide == 6       \* side of the open grid

Grid(width, height, walls) ==
    [width |-> width, height |-> height,
     tiles |-> [t \in Tiles(width, height) |-> [walkable |-> t \notin walls,
                                                buildable |-> t \notin walls]]]

Vec(t) == [x |-> t[1], y |-> t[2]]

PathCalls ==
    {[map |-> Grid(3, 3, walls), start |-> Vec(s), end |-> Vec(e), maxIterations |-> m] :
        walls \in {ws \in SUBSET Tiles(3, 3) : Cardinality(ws) <= MaxWalls},
        s \in Tiles(3, 3), e \in Tiles(4, 3), m \in {1, 3, MAX_ITERATIONS}}
    \cup {[map |-> Grid(OpenSide, OpenSide, {}), start |-> Vec(s), end |-> Vec(e),
           maxIterations |-> MAX_ITERATIONS] :
            s \in Tiles(OpenSide, OpenSide), e \in Tiles(OpenSide, OpenSide)}

\* hist.call: the arguments; hist.returned: findPath has returned hist.path after
\* hist.iterations passes of its loop
PathInit ==
    /\ em = EmInit
    /\ players = NoPlayers
    /\ game = IdleGame
    /\ combat = NoCombat
    /\ twin = NoTwin
    /\ \E call \in PathCalls :
          hist = [call |-> call, returned |-> FALSE, path |-> Absent, iterations |-> 0]

FindPath ==
    /\ ~hist.returned
    /\ LET Returns(r) ==
               hist' = [hist EXCEPT !.returned = TRUE, !.path = r.path,
                                    !.iterations = r.iterations]
       IN  Returns(FindPathRun(hist.call.start, hist.call.end, hist.call.map,
                               hist.call.maxIterations))
    /\ UNCHANGED <<em, players, game, combat, twin>>

PathNext == FindPath

SpecPath == PathInit /\ [][PathNext]_vars

\* ---------------------------------------------------------------------
\* Claims about findPath (checked under SpecPath)
\* ---------------------------------------------------------------------
Chebyshev(a, b) == Max(Abs(a.x - b.x), Abs(a.y - b.y))

\* a unit may step from tile a to tile b: b is one of the eight neighbours of a, walkable,
\* and a diagonal step has both orthogonally adjacent tiles walkable
StepAllowed(map, a, b) ==
    /\ Chebyshev(a, b) = 1
    /\ isWalkable(map, b.x, b.y)
    /\ (a.x # b.x /\ a.y # b.y) => (isWalkable(map, b.x, a.y) /\ isWalkable(map, a.x, b.y))

\* the tiles that allowed steps lead to from the tiles of `seen`
RECURSIVE Reach(_, _)
Reach(map, seen) ==
    LET more == {t \in DOMAIN map.tiles : \E s \in seen : StepAllowed(map, Vec(s), Vec(t))}
    IN  IF more \subseteq seen THEN seen ELSE Reach(map, seen \cup more)

Reachable(map, start, goal) == <<goal.x, goal.y>> \in Reach(map, {<<start.x, start.y>>})

\* C11: every path findPath returns starts at the start tile, ends at the goal tile (or
\* at the walkable tile substituted for an unwalkable goal), moves between 8-adjacent
\* tiles only, visits only in-bounds walkable tiles after the start, and takes a diagonal
\* step only when both orthogonally adjacent tiles are walkable.
C11_PathIsValid ==
    (hist.returned /\ hist.path # Absent) =>
        LET path == hist.path[1]
            goal == GoalOf(hist.call.end, hist.call.map)
        IN  /\ Len(path) >= 1
            /\ path[1] = hist.call.start
            /\ goal # Absent /\ path[Len(path)] = goal[1]
            /\ \A i \in 1..(Len(path) - 1) : StepAllowed(hist.call.map, path[i], path[i + 1])

\* C11 witness: a returned path that ends at the tile substituted for an unwalkable goal
\* and goes around an unwalkable tile it could have cut the corner of
C11_Witness ==
    /\ hist.returned /\ hist.path # Absent
    /\ ~isWalkable(hist.call.map, hist.call.end.x, hist.call.end.y)
    /\ LET path == hist.path[1] IN
       \E i \in 1..(Len(path) - 2) :
          /\ Chebyshev(path[i], path[i + 2]) = 1
          /\ path[i].x # path[i + 2].x /\ path[i].y # path[i + 2].y
          /\ ~StepAllowed(hist.call.map, path[i], path[i + 2])

\* every tile of the call's grid is walkable and the goal is a tile of the grid
OnOpenGrid ==
    /\ \A t \in DOMAIN hist.call.map.tiles : hist.call.map.tiles[t].walkable
    /\ InMap(hist.call.map, hist.call.end.x, hist.call.end.y)

\* C12 as stated: on a grid where every tile is walkable findPath returns a path of
\* exactly max(|dx|, |dy|) + 1 tiles.
C12_Original ==
    (hist.returned /\ OnOpenGrid) =>
        /\ hist.path # Absent
        /\ Len(hist.path[1]) = Chebyshev(hist.call.start, hist.call.end) + 1

\* C12 amended: on a grid where every tile is walkable findPath returns null when its
\* loop has made maxIterations passes without reaching the goal, and otherwise a path of
\* exactly max(|dx|, |dy|) + 1 tiles; findPath((0,0), (5,5)) with the default limit
\* returns the diagonal (0,0), (1,1), ..., (5,5).
C12_ShortestOrNone ==
    (hist.returned /\ OnOpenGrid) =>
        /\ IF hist.path = Absent
           THEN hist.iterations = hist.call.maxIterations
           ELSE Len(hist.path[1]) = Chebyshev(hist.call.start, hist.call.end) + 1
        /\ (/\ hist.call.start = [x |-> 0, y |-> 0]
            /\ hist.call.end = [x |-> 5, y |-> 5]
            /\ hist.call.maxIterations = MAX_ITERATIONS)
           => hist.path = Some([i \in 1..6 |-> [x |-> i - 1, y |-> i - 1]])

\* C12 witness: findPath((0,0), (5,5)) has returned a path of 6 tiles
C12_Witness ==
    /\ hist.returned /\ OnOpenGrid
    /\ hist.call.start = [x |-> 0, y |-> 0]
    /\ hist.call.end = [x |-> 5, y |-> 5]
    /\ hist.path # Absent
    /\ Len(hist.path[1]) = 6

\* C13: findPath returns after at most maxIterations passes of its loop; it returns null
\* when the goal cannot be reached, never a path of more tiles than passes made, and null
\* otherwise only when the passes ran out.
C13_Bounded ==
    hist.returned =>
        LET goal == GoalOf(hist.call.end, hist.call.map)
            canReach == goal # Absent /\ Reachable(hist.call.map, hist.call.start, goal[1])
        IN  /\ hist.iterations <= hist.call.maxIterations
            /\ ~canReach => hist.path = Absent
            /\ hist.path # Absent => Len(hist.path[1]) <= hist.iterations
            /\ (hist.path = Absent /\ canReach) => hist.iterations = hist.call.maxIterations

\* C13 witness: the passes ran out on a goal that can be reached, and findPath returned
\* null
C13_Witness ==
    /\ hist.returned
    /\ hist.path = Absent
    /\ hist.iterations = hist.call.maxIterations
    /\ GoalOf(hist.call.end, hist.call.map) # Absent
    /\ Reachable(hist.call.map, hist.call.start, GoalOf(hist.call.end, hist.call.map)[1])

\* ---------------------------------------------------------------------
\* ResourceSystem.  game.marketRates is the system's marketRates map: empty until
\* ResourceSystem.init has run.  The gather modifiers are 1.0 wherever init has set them
\* and default to 1 elsewhere (no technology's resource_bonus effect names a target, so
\* applyTechEffects leaves them alone): addResource adds floor(amount * 1) = amount.
\* ---------------------------------------------------------------------
ResourceTypes == {"food", "wood", "gold", "stone"}

removeResource_unchecked(w, playerId, type, amount) ==
    IF playerId \notin DOMAIN w.players THEN [w |-> w, ok |-> FALSE]
    ELSE [w  |-> [w EXCEPT !.players[playerId].resources[type] = @ - amount],
          ok |-> TRUE]

\* [w |-> the world afterwards, ok |-> the value returned]
removeResource(w, playerId, type, amount) ==
    IF playerId \notin DOMAIN w.players THEN [w |-> w, ok |-> FALSE]
    ELSE IF w.players[playerId].resources[type] < amount THEN [w |-> w, ok |-> FALSE]
    ELSE [w  |-> [w EXCEPT !.players[playerId].resources[type] = @ - amount],
          ok |-> TRUE]

buyResource(w, playerId, type, amount) ==
    IF playerId \notin DOMAIN w.game.marketRates THEN [w |-> w, ok |-> FALSE]
    ELSE LET rates == w.game.marketRates[playerId]
             cost  == CeilDiv(amount * rates.buyRate, 100)
             Bought(paid) ==
                 IF ~paid.ok THEN [w |-> w, ok |-> FALSE]
                 ELSE [w  |-> [addResource(paid.w, playerId, type, amount)
                                 EXCEPT !.game.marketRates[playerId].buyRate = Min(300, @ + 3)],
                       ok |-> TRUE]
         IN  Bought(removeResource(w, playerId, "gold", cost))

sellResource(w, playerId, type, amount) ==
    LET Sold(taken) ==
            IF ~taken.ok THEN [w |-> w, ok |-> FALSE]
            ELSE IF playerId \notin DOMAIN taken.w.game.marketRates
            THEN [w |-> taken.w, ok |-> FALSE]
            ELSE LET rates == taken.w.game.marketRates[playerId]
                     gold  == (amount * rates.sellRate) \div 100
                 IN  [w  |-> [addResource(taken.w, playerId, "gold", gold)
                                EXCEPT !.game.marketRates[playerId].sellRate = Max(20, @ - 3)],
                      ok |-> TRUE]
    IN  Sold(removeResource(w, playerId, type, amount))

tribute(w, fromPlayer, toPlayer, type, amount) ==
    IF fromPlayer \notin DOMAIN w.players THEN [w |-> w, ok |-> FALSE]
    ELSE LET hasCoinAge == "coinage" \in w.players[fromPlayer].researchedTechs
             taxAmount  == IF hasCoinAge THEN 0 ELSE amount \div 4
             Given(taken) ==
                 IF ~taken.ok THEN [w |-> w, ok |-> FALSE]
                 ELSE [w |-> addResource(taken.w, toPlayer, type, amount - taxAmount),
                       ok |-> TRUE]
         IN  Given(removeResource(w, fromPlayer, type, amount))

\* Age: Dark = 0, Feudal = 1, Castle = 2, Imperial = 3
Ages == 0..3

\* ageCosts[age], as a sequence indexed by age + 1
ageCosts ==
    <<[food |-> 0, gold |-> 0], [food |-> 500, gold |-> 0], [food |-> 800, gold |-> 200],
      [food |-> 1000, gold |-> 800]>>

\* nextAge[age]: Absent for null
nextAge(age) == IF age = 0 THEN Some(1) ELSE IF age = 1 THEN Some(2)
                ELSE IF age = 2 THEN Some(3) ELSE Absent

canAdvanceAge_goldOnly(w, playerId) ==
    IF playerId \notin DOMAIN w.players THEN Absent
    ELSE LET next == nextAge(w.players[playerId].age)
         IN  IF next = Absent THEN Absent
             ELSE IF w.players[playerId].resources.gold >= ageCosts[next[1] + 1].gold
             THEN next
             ELSE Absent

\* the age the player can advance to, or Absent (null)
canAdvanceAge(w, playerId) ==
    IF playerId \notin DOMAIN w.players THEN Absent
    ELSE LET next == nextAge(w.players[playerId].age)
         IN  IF next = Absent THEN Absent
             ELSE IF /\ w.players[playerId].resources.food >= ageCosts[next[1] + 1].food
                     /\ w.players[playerId].resources.gold >= ageCosts[next[1] + 1].gold
             THEN next
             ELSE Absent

advanceAge(w, playerId) ==
    LET next == canAdvanceAge(w, playerId)
    IN  IF next = Absent THEN [w |-> w, ok |-> FALSE]
        ELSE LET cost == ageCosts[next[1] + 1]
                 w1 == removeResource(w, playerId, "food", cost.food).w
                 w2 == removeResource(w1, playerId, "gold", cost.gold).w
             IN  [w |-> [w2 EXCEPT !.players[playerId].age = next[1]], ok |-> TRUE]

\* ---------------------------------------------------------------------
\* BuildingSystem: placement.  The occupancy test asks the store for the entities within
\* 0.4 tiles of the centre (tx + 0.5, ty + 0.5) of a footprint tile: the query is made in
\* tenths of a tile.
\* ---------------------------------------------------------------------
\* the footprint tiles of a building of the given size at (x, y), in loop order
FootprintTiles(size, x, y) ==
    [i \in 1..Len(Footprint(size)) |->
        <<x + Footprint(size)[i].dx, y + Footprint(size)[i].dy>>]

\* the body of canPlaceBuilding's loop for the tile (tx, ty)
TileFree(w, tx, ty) ==
    /\ InMap(w.game.map, tx, ty)
    /\ w.game.map.tiles[<<tx, ty>>].buildable
    /\ w.game.map.tiles[<<tx, ty>>].walkable
    /\ LET entities == getEntitiesInRangeAt(w.em, 10 * tx + 5, 10 * ty + 5, 4, 10)
       IN  \A i \in 1..Len(entities) : ~isBuilding(w.em, entities[i])

canPlaceBuilding(w, buildingId, x, y, playerId) ==
    /\ buildingId \in DOMAIN BUILDINGS
    /\ \A i \in 1..Len(FootprintTiles(BUILDINGS[buildingId].size, x, y)) :
          TileFree(w, FootprintTiles(BUILDINGS[buildingId].size, x, y)[i][1],
                      FootprintTiles(BUILDINGS[buildingId].size, x, y)[i][2])
    /\ canAfford(w.players, playerId, BUILDINGS[buildingId].cost)

\* the tiles of the footprint that exist, marked non-buildable
MarkTiles(map, tiles) ==
    [map EXCEPT !.tiles = [t \in DOMAIN @ |->
                              IF \E i \in 1..Len(tiles) : tiles[i] = t
                              THEN [@[t] EXCEPT !.buildable = FALSE] ELSE @[t]]]

\* placeBuilding that takes the cost before it looks at the site
placeBuilding_payFirst(w, buildingId, x, y, playerId) ==
    IF ~canPlaceBuilding(w, buildingId, x, y, playerId)
    THEN [w  |-> [w EXCEPT !.players =
                     IF canAfford(@, playerId, BUILDINGS[buildingId].cost)
                     THEN deductCost(@, playerId, BUILDINGS[buildingId].cost) ELSE @],
          id |-> NoId]
    ELSE [w  |-> [w EXCEPT !.players = deductCost(@, playerId, BUILDINGS[buildingId].cost),
                           !.em = createBuilding(@, BUILDINGS[buildingId], playerId, x, y, FALSE),
                           !.game.map = MarkTiles(@, FootprintTiles(BUILDINGS[buildingId].size,
                                                                    x, y))],
          id |-> w.em.nextEntityId]

\* placeBuilding returns [w |-> the world afterwards, id |-> the id returned, NoId for null]
placeBuilding(w, buildingId, x, y, playerId) ==
    IF ~canPlaceBuilding(w, buildingId, x, y, playerId) THEN [w |-> w, id |-> NoId]
    ELSE [w  |-> [w EXCEPT !.players = deductCost(@, playerId, BUILDINGS[buildingId].cost),
                           !.em = createBuilding(@, BUILDINGS[buildingId], playerId, x, y, FALSE),
                           !.game.map = MarkTiles(@, FootprintTiles(BUILDINGS[buildingId].size,
                                                                    x, y))],
          id |-> w.em.nextEntityId]

\* the end of construction (buildProgress has reached 1): the building is complete and
\* at full hit points
Constructed(e, id) ==
    [e EXCEPT !.buildings[id].buildProgress = BuildSteps(e.buildings[id].data),
              !.buildings[id].isComplete = TRUE,
              !.health[id].hp = e.buildings[id].data.hp]

\* ---------------------------------------------------------------------
\* Calls of the resource, placement and training operations.  The settlement: a 7 x 4
\* map with one unwalkable tile; the Town Centers of players 1 and 2 as
\* spawnStartingUnits creates them, at (0, 0) and (5, 2), and a villager of player 1 at
\* (2, 3); a barracks that player 1 has placed at (2, 0) and that has been built.  The
\* ids: Town Center 1, villager 2, Town Center 3, barracks 4.  Player 1's Town Center is still under
\* construction or built, and the barracks' training queue is empty or holds as many
\* accepted orders as it takes.  hist.calls counts the calls made; hist.op, hist.args,
\* hist.ok and hist.id are the last call, its arguments and what it returned, and
\* hist.before is the world it was made in.
\* ---------------------------------------------------------------------
MaxCalls == 2       \* calls made after the settlement is set up

SettlementMap == Grid(7, 4, {<<1, 3>>})

RECURSIVE TrainMany(_, _, _, _, _)
TrainMany(w, buildingId, unitId, playerId, n) ==
    IF n = 0 THEN w
    ELSE TrainMany(trainUnit(w, buildingId, unitId, playerId).w, buildingId, unitId,
                   playerId, n - 1)

\* the world once the Town Centers stand and the barracks is placed and built, player 1
\* holding the wood for the barracks and the food for the orders
Founded ==
    LET e0 == createBuilding(createUnit(createBuilding(EmInit, BUILDINGS["townCenter"],
                                                       1, 0, 0, FALSE),
                                        UNITS["villager"], 1, 2, 3),
                             BUILDINGS["townCenter"], 2, 5, 2, FALSE)
        p0 == [NoPlayers EXCEPT ![1].resources.wood = BUILDINGS["barracks"].cost.wood,
                                ![1].resources.food = QUEUE_LIMIT]
        g0 == [tick |-> 0, phase |-> "playing", commandQueue |-> << >>, pc |-> "frame",
               map |-> SettlementMap, marketRates |-> << >>]
        Built(w) == [w EXCEPT !.em = Constructed(@, 4)]
    IN  Built(placeBuilding(World(e0, p0, g0, NoCombat), "barracks", 2, 0, 1).w)

\* player 1's balances and age when the calls start
Fortunes ==
    {[age |-> a, resources |-> [food |-> 1300, wood |-> 3, gold |-> 1000, stone |-> 1]] :
        a \in {0, 2}}
    \cup {[age |-> 0, resources |-> [food |-> 1, wood |-> 1, gold |-> 1, stone |-> 0]]}

\* ResourceSystem.init(playerIds)
InitialRates == [p \in Owners |-> [buyRate |-> 130, sellRate |-> 70]]

NoCall == [calls |-> 0, op |-> None, args |-> << >>, ok |-> FALSE, id |-> NoId,
           before |-> << >>]

EconomyInit ==
    /\ combat = NoCombat
    /\ twin = NoTwin
    /\ hist = NoCall
    /\ \E built \in BOOLEAN, orders \in {0, QUEUE_LIMIT}, fortune \in Fortunes,
          rates \in {<< >>, InitialRates} :
          /\ orders > 0 => built
          /\ LET Settled(w) ==
                     /\ em = w.em
                     /\ players = [w.players EXCEPT ![1].resources = fortune.resources,
                                                    ![1].age = fortune.age]
                     /\ game = [w.game EXCEPT !.marketRates = rates]
                 Start == IF built THEN [Founded EXCEPT !.em = Constructed(@, 1)]
                          ELSE Founded
             IN  Settled(TrainMany(Start, 4, "militia", 1, orders))

\* the inputs of the calls
Callers == {1, 3}       \* player 1, and a player id that is not in the game

Receivers == {2, 3}

Traded == {"food", "gold"}

Amounts == {1, 5}

\* on player 1's Town Center, beside the unwalkable tile, on free ground, off the map
Sites == {<<0, 0>>, <<0, 2>>, <<5, 0>>, <<-1, 0>>}

\* player 1's Town Center, the barracks, and an id no entity has
Trainers == {1, 4, 9}

\* the call op(args) returned ok (and the id `id`) and left the world w
Called(op, args, w, ok, id) ==
    /\ em' = w.em
    /\ players' = w.players
    /\ game' = w.game
    /\ hist' = [calls |-> hist.calls + 1, op |-> op, args |-> args, ok |-> ok, id |-> id,
                before |-> World(em, players, game, combat)]
    /\ UNCHANGED <<combat, twin>>

Returned(op, args, r) == Called(op, args, r.w, r.ok, NoId)

Now == World(em, players, game, combat)

AddResource ==
    /\ hist.calls < MaxCalls
    /\ \E playerId \in Callers, type \in Traded, amount \in {5} :
          Called("addResource", [playerId |-> playerId, type |-> type, amount |-> amount],
                 addResource(Now, playerId, type, amount), TRUE, NoId)

RemoveResource ==
    /\ hist.calls < MaxCalls
    /\ \E playerId \in Callers, type \in {"food"}, amount \in Amounts :
          Returned("removeResource", [playerId |-> playerId, type |-> type, amount |-> amount],
                   removeResource(Now, playerId, type, amount))

BuyResource ==
    /\ hist.calls < MaxCalls
    /\ \E playerId \in {1}, type \in Traded, amount \in Amounts :
          Returned("buyResource", [playerId |-> playerId, type |-> type, amount |-> amount],
                   buyResource(Now, playerId, type, amount))

SellResource ==
    /\ hist.calls < MaxCalls
    /\ \E playerId \in {1}, type \in Traded, amount \in Amounts :
          Returned("sellResource", [playerId |-> playerId, type |-> type, amount |-> amount],
                   sellResource(Now, playerId, type, amount))

Tribute ==
    /\ hist.calls < MaxCalls
    /\ \E fromPlayer \in Callers, toPlayer \in Receivers, type \in {"gold"}, amount \in {5} :
          Returned("tribute", [playerId |-> fromPlayer, toPlayer |-> toPlayer, type |-> type,
                               amount |-> amount],
                   tribute(Now, fromPlayer, toPlayer, type, amount))

AdvanceAge ==
    /\ hist.calls < MaxCalls
    /\ \E playerId \in Callers :
          Returned("advanceAge", [playerId |-> playerId], advanceAge(Now, playerId))

PlaceBuilding ==
    /\ hist.calls < MaxCalls
    /\ \E buildingId \in {"house", "barracks"}, site \in Sites, playerId \in {1} :
          LET Placed(r) == Called("placeBuilding",
                                  [playerId |-> playerId, buildingId |-> buildingId,
                                   x |-> site[1], y |-> site[2]],
                                  r.w, r.id # NoId, r.id)
          IN  Placed(placeBuilding(Now, buildingId, site[1], site[2], playerId))

TrainUnit ==
    /\ hist.calls < MaxCalls
    /\ \E buildingId \in Trainers, unitId \in {"villager", "militia"}, playerId \in {1} :
          Returned("trainUnit", [playerId |-> playerId, buildingId |-> buildingId,
                                 unitId |-> unitId],
                   trainUnit(Now, buildingId, unitId, playerId))

EconomyNext ==
    \/ AddResource
    \/ RemoveResource
    \/ BuyResource
    \/ SellResource
    \/ Tribute
    \/ AdvanceAge
    \/ PlaceBuilding
    \/ TrainUnit

SpecEconomy == EconomyInit /\ [][EconomyNext]_vars

\* ---------------------------------------------------------------------
\* Claims about the resource, placement and training operations (checked under
\* SpecEconomy)
\* ---------------------------------------------------------------------
\* what the last call asks its player to pay, by resource (empty when the call reaches
\* no payment: addResource, a purchase without market rates, no further age)
Spend ==
    LET a == hist.args
        b == hist.before
    IN  CASE hist.op \in {"removeResource", "sellResource", "tribute"} -> (a.type :> a.amount)
          [] hist.op = "buyResource" ->
                IF a.playerId \in DOMAIN b.game.marketRates
                THEN [gold |-> CeilDiv(a.amount * b.game.marketRates[a.playerId].buyRate, 100)]
                ELSE << >>
          [] hist.op = "advanceAge" ->
                IF a.playerId \in DOMAIN b.players /\ nextAge(b.players[a.playerId].age) # Absent
                THEN ageCosts[nextAge(b.players[a.playerId].age)[1] + 1]
                ELSE << >>
          [] hist.op = "placeBuilding" -> BUILDINGS[a.buildingId].cost
          [] hist.op = "trainUnit" -> UNITS[a.unitId].cost
          [] OTHER -> << >>

\* the last call asked a player of the game for more of some resource than the player had
Overspend ==
    /\ hist.calls > 0
    /\ hist.args.playerId \in DOMAIN hist.before.players
    /\ \E r \in DOMAIN Spend : hist.before.players[hist.args.playerId].resources[r] < Spend[r]

\* C14: every balance of every player is >= 0, and a call whose spend exceeds the
\* player's balance returns false (null) and leaves every balance as it was
C14_BalancesNonNegative ==
    /\ \A p \in DOMAIN players : \A r \in ResourceTypes : players[p].resources[r] >= 0
    /\ Overspend => (~hist.ok /\ players = hist.before.players)

\* a purchase at the market that costs more gold than the player has, as the last of
\* the calls
C14_Witness ==
    /\ hist.calls = MaxCalls
    /\ hist.op = "buyResource"
    /\ Overspend
    /\ ~hist.ok

\* C15: a call advanceAge(player) for a player of the game returns true exactly when the
\* player has a next age and holds its food and gold cost; it then has deducted that cost
\* and raised the age by one step, and otherwise has changed nothing.  No call makes an
\* age decrease or skip a step.
C15_AdvanceAgeAtomic ==
    /\ \A p \in DOMAIN players :
          hist.calls > 0 => players[p].age - hist.before.players[p].age \in {0, 1}
    /\ (hist.op = "advanceAge" /\ hist.args.playerId \in DOMAIN players) =>
          LET p    == hist.args.playerId
              was  == hist.before.players[p]
              next == nextAge(was.age)
              due  == next # Absent /\ was.resources.food >= ageCosts[next[1] + 1].food
                                    /\ was.resources.gold >= ageCosts[next[1] + 1].gold
          IN  /\ hist.ok = due
              /\ ~due => players = hist.before.players
              /\ due => players = [hist.before.players EXCEPT
                                      ![p].age = was.age + 1,
                                      ![p].resources.food = @ - ageCosts[next[1] + 1].food,
                                      ![p].resources.gold = @ - ageCosts[next[1] + 1].gold]

\* a player who advanced from the Dark age to the Feudal age and now from the Feudal age
\* to the Castle age
C15_Witness ==
    /\ hist.calls = MaxCalls
    /\ hist.op = "advanceAge"
    /\ hist.ok
    /\ hist.before.players[1].age = 1
    /\ players[1].age = 2
    /\ players[1].resources.food = 0

\* the tiles of building id's footprint in the store e
FootprintOf(e, id) ==
    {<<e.positions[id].x + dx, e.positions[id].y + dy>> :
        dx \in 0..(e.buildings[id].data.size.x - 1),
        dy \in 0..(e.buildings[id].data.size.y - 1)}

\* the tiles the last call (a placeBuilding) asked for
AskedTiles ==
    {<<hist.args.x + dx, hist.args.y + dy>> :
        dx \in 0..(BUILDINGS[hist.args.buildingId].size.x - 1),
        dy \in 0..(BUILDINGS[hist.args.buildingId].size.y - 1)}

\* C16: a placeBuilding that returned an id asked for tiles that were all in bounds,
\* walkable, buildable and outside the footprint of every building then standing; and no
\* two buildings' footprints share a tile (the starting Town Centers included)
C16_Original ==
    /\ (hist.op = "placeBuilding" /\ hist.ok) =>
          \A t \in AskedTiles :
              /\ InMap(hist.before.game.map, t[1], t[2])
              /\ hist.before.game.map.tiles[t].walkable
              /\ hist.before.game.map.tiles[t].buildable
              /\ \A b \in DOMAIN hist.before.em.buildings : t \notin FootprintOf(hist.before.em, b)
    /\ \A a, b \in DOMAIN em.buildings :
          a # b => FootprintOf(em, a) \cap FootprintOf(em, b) = {}

\* C17: a placeBuilding that returned null changed no balance, no entity and no tile; one
\* that returned an id deducted exactly the building's cost from the player, created one
\* incomplete building of that player at the position asked for, left every other entity
\* alone, and marked exactly the footprint tiles non-buildable.  It returns null when the
\* player cannot afford the cost.
C17_PlaceBuildingAtomic ==
    hist.op = "placeBuilding" =>
        LET a    == hist.args
            b    == hist.before
            data == BUILDINGS[a.buildingId]
        IN  /\ ~canAfford(b.players, a.playerId, data.cost) => ~hist.ok
            /\ ~hist.ok => (hist.id = NoId /\ players = b.players /\ em.entities = b.em.entities
                            /\ em = b.em /\ game = b.game)
            /\ hist.ok =>
                  /\ players = [b.players EXCEPT ![a.playerId].resources =
                                   [r \in DOMAIN @ |-> IF r \in DOMAIN data.cost
                                                       THEN @[r] - data.cost[r] ELSE @[r]]]
                  /\ hist.id \notin DOMAIN b.em.entities
                  /\ DOMAIN em.entities = DOMAIN b.em.entities \cup {hist.id}
                  /\ DOMAIN em.buildings = DOMAIN b.em.buildings \cup {hist.id}
                  /\ \A id \in DOMAIN b.em.entities : em.entities[id] = b.em.entities[id]
                  /\ \A id \in DOMAIN b.em.buildings : em.buildings[id] = b.em.buildings[id]
                  /\ \A id \in DOMAIN b.em.positions : em.positions[id] = b.em.positions[id]
                  /\ em.units = b.em.units
                  /\ em.entities[hist.id].owner = a.playerId
                  /\ em.entities[hist.id].type = "building"
                  /\ em.buildings[hist.id].data = data
                  /\ ~em.buildings[hist.id].isComplete
                  /\ em.positions[hist.id].x = a.x /\ em.positions[hist.id].y = a.y
                  /\ \A t \in DOMAIN game.map.tiles :
                        game.map.tiles[t] = IF t \in AskedTiles
                                            THEN [b.game.map.tiles[t] EXCEPT !.buildable = FALSE]
                                            ELSE b.game.map.tiles[t]
                  /\ AskedTiles \subseteq DOMAIN game.map.tiles

\* a house placed on free ground as the last of the calls
C17_Witness ==
    /\ hist.calls = MaxCalls
    /\ hist.op = "placeBuilding"
    /\ hist.ok
    /\ hist.args.buildingId = "house"
    /\ hist.args.x = 5
    /\ ~game.map.tiles[<<6, 1>>].buildable

\* C18: a trainUnit made while the player's population plus the unit's population cost
\* exceeds the player's population cap returns false and leaves every balance and
\* every training queue as they were
C18_PopulationCapRejects ==
    (/\ hist.op = "trainUnit"
     /\ getPopulation(hist.before.em, hist.args.playerId)
            + UNITS[hist.args.unitId].populationCost
            > getPopulationCap(hist.before.em, hist.args.playerId))
    => (~hist.ok /\ players = hist.before.players /\ em.buildings = hist.before.em.buildings)

\* militia ordered at the built barracks by a player who can pay for it, while the
\* player's only population building (the Town Center) is still under construction
C18_Witness ==
    /\ hist.op = "trainUnit"
    /\ hist.args.buildingId = 4
    /\ hist.args.unitId = "militia"
    /\ hist.before.em.buildings[4].isComplete
    /\ canAfford(hist.before.players, 1, UNITS["militia"].cost)
    /\ getPopulation(hist.before.em, 1) = 1
    /\ getPopulationCap(hist.before.em, 1) = 0
    /\ ~hist.ok

\* C19: a trainUnit has deducted the unit's cost from the player if and only if it has
\* appended an item for that unit to the building's training queue, and one that
\* returned false has left every balance as it was
C19_Original ==
    hist.op = "trainUnit" =>
        LET a == hist.args
            b == hist.before
            paid == players # b.players
            appended ==
                /\ a.buildingId \in DOMAIN b.em.buildings
                /\ em.buildings[a.buildingId].trainingQueue =
                       Append(b.em.buildings[a.buildingId].trainingQueue,
                              [unitId |-> a.unitId, progress |-> 0,
                               totalTime |-> UNITS[a.unitId].trainTime])
        IN  /\ paid <=> appended
            /\ ~hist.ok => players = b.players

\* ---------------------------------------------------------------------
\* Training: the settlement with player 1's Town Center built and a built house of
\* player 1 at (5, 0) (id 5), so that the population cap is 7; player 1 orders units at
\* the Town Center and the barracks while BuildingSystem.update runs.  hist.requests
\* counts the trainUnit calls, hist.accepted[b] lists the unit types of the calls on
\* building b that returned true, in the order of the calls.
\* ---------------------------------------------------------------------
MaxOrders == 3      \* trainUnit calls

TrainingBuildings == {1, 4}

TrainingInit ==
    /\ combat = NoCombat
    /\ twin = NoTwin
    /\ hist = [requests |-> 0, accepted |-> [b \in TrainingBuildings |-> << >>]]
    /\ LET Settled(w) ==
               /\ em = Constructed(w.em, 5)
               /\ players = [w.players EXCEPT ![1].resources.food = 5]
               /\ game = w.game
           Start == [Founded EXCEPT !.em = Constructed(@, 1),
                                    !.players[1].resources.wood = BUILDINGS["house"].cost.wood]
       IN  Settled(placeBuilding(Start, "house", 5, 0, 1).w)

\* BuildingSystem.trainUnit, called by player 1
OrderUnit ==
    /\ hist.requests < MaxOrders
    /\ \E buildingId \in TrainingBuildings, unitId \in {"villager", "militia"} :
          LET Ordered(r) ==
                  /\ em' = r.w.em
                  /\ players' = r.w.players
                  /\ game' = r.w.game
                  /\ hist' = [requests |-> hist.requests + 1,
                              accepted |-> IF r.ok
                                           THEN [hist.accepted EXCEPT ![buildingId] =
                                                    Append(@, unitId)]
                                           ELSE hist.accepted]
          IN  Ordered(trainUnit(Now, buildingId, unitId, 1))
    /\ UNCHANGED <<combat, twin>>

\* BuildingSystem.update(dt)
BuildingTick ==
    /\ LET Becomes(w) ==
               /\ em' = w.em
               /\ players' = w.players
               /\ game' = w.game
       IN  Becomes(buildingSystemUpdate(Now))
    /\ UNCHANGED <<combat, twin, hist>>

TrainingNext == OrderUnit \/ BuildingTick

SpecTraining == TrainingInit /\ [][TrainingNext]_vars

\* ---------------------------------------------------------------------
\* Claims about the training queue (checked under SpecTraining)
\* ---------------------------------------------------------------------
\* where building b puts the units it has trained (no rally point is set)
SpawnPoint(b) ==
    findSpawnPosition(game.map, em.positions[b].x + em.buildings[b].data.size.x,
                      em.positions[b].y + em.buildings[b].data.size.y)

\* the unit types building b has spawned, oldest first (ids grow with time)
Spawned(e, b) ==
    LET ids == IdSeq({id \in DOMAIN e.units :
                         /\ e.positions[id].x = SpawnPoint(b).x
                         /\ e.positions[id].y = SpawnPoint(b).y})
    IN  [i \in 1..Len(ids) |-> e.units[ids[i]].data.id]

QueuedTypes(e, b) ==
    [i \in 1..Len(e.buildings[b].trainingQueue) |-> e.buildings[b].trainingQueue[i].unitId]

\* what one step may do to the training queue q of building b: leave it, append a fresh
\* order, advance the head short of its totalTime, or remove the head whose progress has
\* reached its totalTime and spawn a unit of the head's type
QueueStep(b) ==
    LET q  == em.buildings[b].trainingQueue
        q2 == em'.buildings[b].trainingQueue
    IN  \/ q2 = q /\ Spawned(em', b) = Spawned(em, b)
        \/ /\ Len(q2) = Len(q) + 1
           /\ SubSeq(q2, 1, Len(q)) = q
           /\ q2[Len(q2)].progress = 0
           /\ Spawned(em', b) = Spawned(em, b)
        \/ /\ q # << >>
           /\ q2 = [q EXCEPT ![1].progress = @ + 1]
           /\ q2[1].progress < q2[1].totalTime
           /\ Spawned(em', b) = Spawned(em, b)
        \/ /\ q # << >>
           /\ q[1].progress + 1 >= q[1].totalTime
           /\ q2 = Tail(q)
           /\ Spawned(em', b) = Append(Spawned(em, b), q[1].unitId)

\* C20: for every building, the units spawned so far followed by the units still queued
\* are the accepted orders in the order they were accepted; only the head of a queue has
\* progress; and every step leaves a queue alone, appends an order, advances the head, or
\* spawns and removes the head once its own progress has reached its totalTime
C20_TrainingFifo ==
    /\ [](\A b \in TrainingBuildings :
            /\ Spawned(em, b) \o QueuedTypes(em, b) = hist.accepted[b]
            /\ \A i \in 2..Len(em.buildings[b].trainingQueue) :
                  em.buildings[b].trainingQueue[i].progress = 0)
    /\ [][\A b \in TrainingBuildings : QueueStep(b)]_vars

\* the Town Center has spawned a villager, a militia and a villager, ordered in that
\* order: the militia (one step of training) left after the first villager (two steps)
C20_Witness ==
    /\ hist.accepted[1] = <<"villager", "militia", "villager">>
    /\ Spawned(em, 1) = hist.accepted[1]
    /\ em.buildings[1].trainingQueue = << >>

\* ---------------------------------------------------------------------
\* Fog of war on a 7 x 2 map.  Player 1 has a scout (id 1: a villager, who sees 1 tile
\* far, or an archer, who sees 2) in the west, a tree of gaia stands at (3, 1) (id 2)
\* and player 2 has a villager (id 3) in the east, out of the scout's reach.  Between
\* two frames the scout is moved (EntityManager.setPosition) and entities are removed;
\* a frame is one turn of gameLoop.  The local player is player 1 or player 2.
\* ---------------------------------------------------------------------
MaxFogTicks == 4    \* frames of a session of the fog model

FogMap == Grid(7, 2, {})

FogStore(scout) ==
    createUnit(createResource(createUnit(EmInit, UNITS[scout], 1, 0, 0), "wood", 1, 3, 1),
               UNITS["villager"], 2, 6, 0)

FogInit ==
    /\ \E scout \in {"villager", "archer"} : em = FogStore(scout)
    /\ players = NoPlayers
    /\ \E local \in Owners :
          game = [tick |-> 0, phase |-> "playing", commandQueue |-> << >>, pc |-> "frame",
                  map |-> FogMap, localPlayerId |-> local,
                  fog |-> fogOfWarInit(FogMap.width, FogMap.height, Owners)]
    /\ combat = NoCombat
    /\ twin = NoTwin
    /\ hist = << >>

\* EntityManager.setPosition on the scout
FogSetPosition ==
    \E x \in 0..1, y \in 0..1 :
        /\ em' = setPosition(em, 1, x, y)
        /\ UNCHANGED <<players, game, combat, twin, hist>>

\* EntityManager.removeEntity
FogRemoveEntity ==
    \E id \in {1, 3} :
        /\ em' = removeEntity(em, id)
        /\ UNCHANGED <<players, game, combat, twin, hist>>

\* one turn of gameLoop
FogFrame ==
    /\ game.tick < MaxFogTicks
    /\ LET Becomes(w) ==
               /\ em' = w.em
               /\ players' = w.players
               /\ game' = w.game
               /\ combat' = w.combat
       IN  Becomes(gameLoopStep(World(em, players, game, combat)))
    /\ UNCHANGED <<twin, hist>>

FogNext == FogSetPosition \/ FogRemoveEntity \/ FogFrame

SpecFog == FogInit /\ [][FogNext]_vars

\* what the renderer is told about tile t for player p
Report(p, t) == getTileVisibility(game.fog, t[1], t[2], p)

\* an entity of player p stands within its line of sight of tile t
LosCovers(p, t) ==
    \E id \in DOMAIN em.entities :
        /\ em.entities[id].owner = p
        /\ id \in DOMAIN em.positions
        /\ LET dx == t[1] - em.positions[id].x
               dy == t[2] - em.positions[id].y
               los == lineOfSightOf(em, id)
           IN  dx * dx + dy * dy <= los * los

\* C21: for every player and in-bounds tile, the tile reports Hidden (0) before the first
\* recompute; a recompute makes it Visible (2) when an entity of the player has it within
\* its line of sight, and otherwise Explored (1) when it reported Visible or Explored
\* before and Hidden when it reported Hidden; between recomputes the report stays; a tile
\* that does not report Hidden never reports Hidden again.
C21_FogTransitions ==
    /\ [](game.fog.passes = 0 =>
            \A p \in Owners, t \in Tiles(FogMap.width, FogMap.height) : Report(p, t) = 0)
    /\ [][\A p \in Owners, t \in Tiles(FogMap.width, FogMap.height) :
            /\ IF game.fog.passes' # game.fog.passes
               THEN Report(p, t)' = IF LosCovers(p, t)' THEN 2
                                    ELSE IF Report(p, t) # 0 THEN 1 ELSE 0
               ELSE Report(p, t)' = Report(p, t)
            /\ Report(p, t) # 0 => Report(p, t)' # 0]_vars

\* after two recomputes a tile the scout has left reports Explored, a tile it sees
\* reports Visible and a tile it never saw reports Hidden
C21_Witness ==
    /\ game.fog.passes >= 2
    /\ 1 \in DOMAIN em.positions
    /\ \E t1, t2, t3 \in Tiles(FogMap.width, FogMap.height) :
          /\ Report(1, t1) = 1 /\ ~LosCovers(1, t1)
          /\ Report(1, t2) = 2 /\ LosCovers(1, t2)
          /\ Report(1, t3) = 0

\* C30: computeVisibility runs at most once per 200 ms of simulated time, that is at most
\* once in four ticks of 50 ms, whoever the local player is: after n ticks it has run
\* at most once for every four ticks begun.
C30_Original == 4 * game.fog.passes <= game.tick + 3

\* ---------------------------------------------------------------------
\* Orders to a fallen soldier.  The skirmish of above with fixed stats: soldier 1 (a
\* militia of player 1) stands next to soldier 2 of player 2, who has 2 hit points and
\* falls to the first blow.  Between two ticks player 2 may order soldier 2 to move, to
\* attack soldier 1, to gather at or repair the house (id 4), to garrison in it or to
\* patrol; the callback that removes a fallen unit comes due between two ticks.
\* ---------------------------------------------------------------------
OrdersStore ==
    SkirmishStore(UNITS.militia, [UNITS.militia EXCEPT !.hp = 2, !.meleeArmor = 0])

OrderBatches ==
    {<< >>,
     <<Command("move", 2, <<2>>, NoId, Some([x |-> 3, y |-> 2]), None)>>,
     <<Command("attack", 2, <<2>>, 1, Absent, None)>>,
     <<Command("gather", 2, <<2>>, 4, Absent, None)>>,
     <<Command("garrison", 2, <<2>>, 4, Absent, None)>>,
     <<Command("patrol", 2, <<2>>, NoId, Some([x |-> 3, y |-> 0]), None)>>,
     <<Command("repair", 2, <<2>>, 4, Absent, None)>>}

OrdersInit ==
    /\ em = OrdersStore
    /\ players = NoPlayers
    /\ game = SkirmishGame
    /\ combat = NoCombat
    /\ twin = NoTwin
    /\ hist = << >>

\* one turn of gameLoop, with the commands that arrived since the last one
OrdersTick ==
    \E cmds \in OrderBatches :
        /\ game.tick < MaxTicks
        /\ LET Becomes(w) ==
                   /\ em' = w.em
                   /\ players' = w.players
                   /\ game' = w.game
                   /\ combat' = w.combat
           IN  Becomes(gameLoopStep(World(em, players,
                                          [game EXCEPT !.commandQueue = cmds], combat)))
        /\ UNCHANGED <<twin, hist>>

\* the setTimeout callback of the oldest kill comes due
OrdersTimerFires ==
    /\ TimerFires
    /\ game.tick < MaxTicks

OrdersNext == OrdersTick \/ OrdersTimerFires

SpecOrders == OrdersInit /\ [][OrdersNext]_vars

\* C26 as stated: a unit in the dead state that is still in the store after a step is
\* still dead, stands where it stood and has the hit points it had: no command and no
\* system step changes its state, moves it or damages it.
C26_Original ==
    [][\A id \in DOMAIN em.units :
          (em.units[id].state = "dead" /\ id \in DOMAIN em'.units) =>
              /\ em'.units[id].state = "dead"
              /\ em'.positions[id].x = em.positions[id].x
              /\ em'.positions[id].y = em.positions[id].y
              /\ em'.health[id].hp = em.health[id].hp]_vars

\* ---------------------------------------------------------------------
\* A march along a corridor of 4 x 1 tiles, counted in steps of 4 / (1000 * TICK_RATE)
\* tile: a unit of speed 4 (tiles per second) is moved by updateMoving 1 step per tick.
\* A villager of player 1 stands on the centre of the first or the second tile, where
\* findSpawnPosition puts a trained unit.  The player gives at most MaxMarchOrders orders
\* (Move or Patrol to the corner or the centre of a tile), each executed by the next
\* tick; a session runs MaxMarchTicks ticks.
\* ---------------------------------------------------------------------
MaxMarchTicks == 12    \* ticks of a march

MaxMarchOrders == 1    \* orders given during a march

StepsPerTile == (1000 * TICK_RATE) \div UNITS["villager"].speed

MarchMap == Grid(4, 1, {})

\* the store with a villager of player 1 on the centre of tile (tx, 0)
MarchStore(tx) ==
    LET e == createUnit(EmInit, UNITS["villager"], 1, tx, 0) IN
    [e EXCEPT !.positions[1] = [x |-> tx * StepsPerTile + StepsPerTile \div 2,
                                y |-> StepsPerTile \div 2,
                                prevX |-> tx * StepsPerTile + StepsPerTile \div 2,
                                prevY |-> StepsPerTile \div 2]]

\* the positions an order names: the corner and the centre of the last two tiles
MarchTargets ==
    {[x |-> tx * StepsPerTile + off, y |-> off] : tx \in {2, 3}, off \in {0, StepsPerTile \div 2}}

\* hist.orders: the orders given so far
\* hist.order:  the last order given (type, position, the tick it was applied in and the
\*              position of the unit at that time)
MarchInit ==
    /\ \E tx \in {0, 1} : em = MarchStore(tx)
    /\ players = NoPlayers
    /\ game = [tick |-> 0, phase |-> "playing", commandQueue |-> << >>, pc |-> "frame",
               map |-> MarchMap, posUnit |-> StepsPerTile]
    /\ combat = NoCombat
    /\ twin = NoTwin
    /\ hist = [orders |-> 0, order |-> Absent]

\* Game.issueCommand of a local game: the command waits in the queue for the next tick
MarchOrder ==
    \E type \in {"move", "patrol"}, target \in MarchTargets :
        /\ hist.orders < MaxMarchOrders
        /\ game.commandQueue = << >>
        /\ game' = [game EXCEPT !.commandQueue =
                        <<[Command(type, 1, <<1>>, NoId, Some(target), None)
                              EXCEPT !.tick = game.tick]>>]
        /\ hist' = [orders |-> hist.orders + 1,
                    order |-> Some([type |-> type, position |-> target, tick |-> game.tick,
                                    from |-> [x |-> em.positions[1].x,
                                              y |-> em.positions[1].y]])]
        /\ UNCHANGED <<em, players, combat, twin>>

\* one turn of gameLoop
MarchTick ==
    /\ game.tick < MaxMarchTicks
    /\ LET Becomes(w) ==
               /\ em' = w.em
               /\ players' = w.players
               /\ game' = w.game
               /\ combat' = w.combat
       IN  Becomes(gameLoopStep(World(em, players, game, combat)))
    /\ UNCHANGED <<twin, hist>>

MarchNext == MarchOrder \/ MarchTick

SpecMarch == MarchInit /\ [][MarchNext]_vars

\* the steps a unit of the given speed covers in one tick of 1 / TICK_RATE seconds
ClaimedStepsPerTick(speed) == (speed * StepsPerTile) \div TICK_RATE

\* ceil(distance / speed / tickDuration) for the way from `from' to `to'
TicksFor(from, to, speed) ==
    LET d2 == (to.x - from.x) * (to.x - from.x) + (to.y - from.y) * (to.y - from.y)
        reach(k) == k * ClaimedStepsPerTick(speed)
    IN  CHOOSE k \in 0..(4 * TICK_RATE) :
            /\ reach(k) * reach(k) >= d2
            /\ k > 0 => reach(k - 1) * reach(k - 1) < d2

\* C22 as stated: when a Move order to position p was applied at tick t on the open
\* corridor, then once tick t + ceil(distance / speed / tickDuration) has run the unit is
\* idle and stands within 0.3 tiles of p.
C22_Original ==
    (/\ hist.order # Absent
     /\ hist.order[1].type = "move"
     /\ 1 \in DOMAIN em.units
     /\ game.tick > hist.order[1].tick
                    + TicksFor(hist.order[1].from, hist.order[1].position,
                               em.units[1].data.speed))
    => /\ em.units[1].state = "idle"
       /\ CloserThan(hist.order[1].position.x - em.positions[1].x,
                     hist.order[1].position.y - em.positions[1].y,
                     ARRIVE_THRESHOLD_TENTHS, StepsPerTile)

\* C27 as stated: after a Patrol order was applied to a unit whose waypoint is reachable,
\* the unit is patrolling for as long as no hostile unit is in sight and no new order is
\* given.  (The corridor holds no other unit, and every tile of it is reachable.)
C27_Original ==
    (/\ hist.order # Absent
     /\ hist.order[1].type = "patrol"
     /\ game.commandQueue = << >>
     /\ 1 \in DOMAIN em.units)
    => em.units[1].state = "patrolling"

\* ---------------------------------------------------------------------
\* A building site on an open 4 x 3 map.  A villager of player 1 (id 1) stands at (0, 0)
\* next to the site of a Town Center of player 1 (id 2, at (0, 1), created incomplete:
\* 9 hit points when complete, 1 second to build, 0 hit points to start with); a militia
\* of player 2 (id 3) stands at (3, 2), out of reach of both.  The villager is sent to
\* build (UnitSystem.buildStructure) or to repair (a Repair command), the player orders
\* a villager at the site (a Train command), the site and the villager are hit
\* (CombatSystem.dealDamage and dealAreaDamage with the militia as attacker) and the
\* site's hit points are set (EntityManager.setHP).
\* ---------------------------------------------------------------------
MaxSiteTicks == 22   \* ticks of a session at the site

SiteData == [BUILDINGS.townCenter EXCEPT !.hp = 9, !.buildTime = 1]

SiteStore ==
    createUnit(createBuilding(createUnit(EmInit, UNITS.villager, 1, 0, 0),
                              SiteData, 1, 0, 1, FALSE),
               UNITS.militia, 2, 3, 2)

SiteBatches ==
    {<< >>,
     <<Command("repair", 1, <<1>>, 2, Absent, None)>>,
     <<Command("train", 1, <<2>>, NoId, Absent, "villager")>>}

SiteInit ==
    /\ em = SiteStore
    /\ players = NoPlayers
    /\ game = [tick |-> 0, phase |-> "playing", commandQueue |-> << >>, pc |-> "frame",
               map |-> Grid(4, 3, {})]
    /\ combat = NoCombat
    /\ twin = NoTwin
    /\ hist = << >>

SiteBecomes(w) ==
    /\ em' = w.em
    /\ players' = w.players
    /\ game' = w.game
    /\ combat' = w.combat
    /\ UNCHANGED <<twin, hist>>

\* UnitSystem.buildStructure(1, 2)
SiteBuildStructure ==
    /\ 1 \in DOMAIN em.units
    /\ em.units[1].state # "dead"
    /\ SiteBecomes(buildStructure(World(em, players, game, combat), 1, 2))

\* one turn of gameLoop, with the commands that arrived since the last one
SiteTick ==
    \E cmds \in SiteBatches :
        /\ game.tick < MaxSiteTicks
        /\ SiteBecomes(gameLoopStep(World(em, players, [game EXCEPT !.commandQueue = cmds],
                                          combat)))

\* CombatSystem.dealDamage(3, target)
SiteDealDamage ==
    \E target \in {1, 2} :
        /\ Len(combat.timers) < 1
        /\ SiteBecomes(dealDamage(World(em, players, game, combat), 3, target))

\* CombatSystem.dealAreaDamage(0, 1, 2, 3, 3)
SiteAreaDamage ==
    /\ Len(combat.timers) < 1
    /\ SiteBecomes(dealAreaDamage(World(em, players, game, combat), 0, 1, 2, 3, 3))

\* EntityManager.setHP(2, hp)
SiteSetHP ==
    \E hp \in {-1, 4, 10} :
        /\ em' = setHP(em, 2, hp)
        /\ UNCHANGED <<players, game, combat, twin, hist>>

\* the setTimeout callback of the oldest kill comes due
SiteTimerFires == TimerFires

SiteNext ==
    \/ SiteBuildStructure \/ SiteTick \/ SiteDealDamage \/ SiteAreaDamage \/ SiteSetHP
    \/ SiteTimerFires

SpecSite == SiteInit /\ [][SiteNext]_vars

\* C24: every entity with a Health component has 0 <= hp <= maxHp, whatever sequence of
\* construction steps, repairs, hits, area damage and setHP calls led to the state.
C24_HealthInBounds ==
    \A id \in DOMAIN em.health : 0 <= em.health[id].hp /\ em.health[id].hp <= em.health[id].maxHp

\* the finished building has been damaged and the villager is repairing it
C24_Witness ==
    /\ 2 \in DOMAIN em.buildings
    /\ em.buildings[2].isComplete
    /\ em.health[2].hp \in 1..(em.health[2].maxHp - 1)
    /\ 1 \in DOMAIN em.units
    /\ em.units[1].state = "repairing"
    /\ em.units[1].targetId = 2

\* C28: for every building, buildProgress lies between 0 and 1 (BuildSteps steps), and
\* isComplete is true exactly when it has reached 1; from one state to the next
\* buildProgress does not decrease, isComplete does not revert to false, a building that
\* becomes complete has hp = maxHp, and the queues of an incomplete building do not
\* change; an incomplete building adds nothing to its owner's population cap.
C28_ConstructionMonotone ==
    /\ [](\A id \in DOMAIN em.buildings :
            /\ em.buildings[id].buildProgress \in 0..BuildSteps(em.buildings[id].data)
            /\ em.buildings[id].isComplete <=>
                   em.buildings[id].buildProgress = BuildSteps(em.buildings[id].data))
    /\ [](\A p \in Owners :
            getPopulationCap(em, p) =
                SumOver([id \in DOMAIN em.buildings |->
                            em.buildings[id].data.populationProvided],
                        {id \in DOMAIN em.buildings :
                            /\ em.entities[id].owner = p
                            /\ em.buildings[id].buildProgress
                                   = BuildSteps(em.buildings[id].data)}))
    /\ [][\A id \in DOMAIN em.buildings \cap DOMAIN em'.buildings :
            /\ em'.buildings[id].buildProgress >= em.buildings[id].buildProgress
            /\ em.buildings[id].isComplete => em'.buildings[id].isComplete
            /\ (~em.buildings[id].isComplete /\ em'.buildings[id].isComplete)
                   => em'.health[id].hp = em'.health[id].maxHp
            /\ ~em.buildings[id].isComplete =>
                   /\ em'.buildings[id].trainingQueue = em.buildings[id].trainingQueue
                   /\ em'.buildings[id].researchQueue = em.buildings[id].researchQueue]_vars

\* the site has been completed by the villager and has taken an order since
C28_Witness ==
    /\ 2 \in DOMAIN em.buildings
    /\ em.buildings[2].isComplete
    /\ em.buildings[2].trainingQueue # << >>
    /\ getPopulationCap(em, 1) = SiteData.populationProvided
    /\ game.tick >= BuildSteps(SiteData)

\* ---------------------------------------------------------------------
\* A villager at work on a map of 5 x 3 tiles, at tile scale.  The villager of player 1
\* (id 1) stands at (1, 0), within GATHER_RANGE of the player's farm at (0, 1) (id 2), of
\* a berry bush holding 2 food at (0, 0) (id 4, on a tile that may hold a berry itself)
\* and within drop-off range of the town centre at (2, 0) (id 3); or at (4, 0), out of
\* range of all three.  It comes empty-handed or with a full load of food.  The player
\* orders it to gather at the farm or at the bush.
\* ---------------------------------------------------------------------
MaxFarmTicks == 6     \* ticks of a working session

FARM_FOOD == 175

FarmData == [BUILDINGS.house EXCEPT !.id = "farm", !.populationProvided = 0]

DropoffData == [isDropoff |-> {"food", "wood"}] @@ BUILDINGS.townCenter

FarmStore(vx, carry) ==
    LET e == createResource(createBuilding(createBuilding(
                 createUnit(EmInit, UNITS.villager, 1, vx, 0),
                 FarmData, 1, 0, 1, TRUE), DropoffData, 1, 2, 0, TRUE), "food", 2, 0, 0)
    IN  [e EXCEPT !.units[1].carryAmount = carry,
                  !.units[1].carryType = IF carry > 0 THEN "food" ELSE None]

FarmMap(berries) ==
    [Grid(5, 3, {}) EXCEPT !.tiles[<<0, 0>>] =
        [walkable |-> TRUE, buildable |-> TRUE, resourceAmount |-> berries,
         resourceType |-> IF berries > 0 THEN "food" ELSE None]]

\* hist.orders: "none", "farm" when every order so far sent the villager to the farm,
\* else "mixed"; hist.food: the owner's food and hist.carry the villager's load at the start
FarmInit ==
    \E vx \in {1, 4}, carry \in {0, CARRY_CAPACITY}, berries \in {0, 1} :
        /\ em = FarmStore(vx, carry)
        /\ players = NoPlayers
        /\ game = [tick |-> 0, phase |-> "playing", commandQueue |-> << >>, pc |-> "frame",
                   map |-> FarmMap(berries)]
        /\ combat = NoCombat
        /\ twin = NoTwin
        /\ hist = [orders |-> "none", food |-> NoPlayers[1].resources.food, carry |-> carry]

FarmBecomes(w) ==
    /\ em' = w.em
    /\ players' = w.players
    /\ game' = w.game
    /\ combat' = w.combat
    /\ UNCHANGED twin

\* one turn of gameLoop with no command
FarmTick ==
    /\ game.tick < MaxFarmTicks
    /\ FarmBecomes(gameLoopStep(World(em, players, game, combat)))
    /\ UNCHANGED hist

\* one turn of gameLoop that executes Gather(entityIds [1], targetId)
FarmOrder ==
    \E targetId \in {2, 4} :
        /\ game.tick < MaxFarmTicks
        /\ FarmBecomes(gameLoopStep(World(em, players,
               [game EXCEPT !.commandQueue =
                    <<Command("gather", 1, <<1>>, targetId, Absent, None)>>], combat)))
        /\ hist' = [hist EXCEPT !.orders = IF targetId = 2 /\ @ \in {"none", "farm"}
                                           THEN "farm" ELSE "mixed"]

FarmNext == FarmTick \/ FarmOrder

SpecFarm == FarmInit /\ [][FarmNext]_vars

\* C23 as stated: a villager that came empty-handed and was ordered to the farm only is
\* through with the order (idle again) only when the farm's 175 food have reached its
\* owner's stockpile, no more and no less, and the farm has been removed.
C23_Original ==
    (/\ hist.orders = "farm"
     /\ hist.carry = 0
     /\ em.units[1].state = "idle")
        => /\ players[1].resources.food = hist.food + FARM_FOOD
           /\ 2 \notin DOMAIN em.entities

\* ---------------------------------------------------------------------
\* Projectiles (checked under SpecCombat, where attacker 1 may shoot)
\* ---------------------------------------------------------------------
\* the projectile is within 0.5 of the place its target stands at, the target existing
Arrives(e, proj) ==
    /\ entityExists(e, proj.targetId)
    /\ proj.targetId \in DOMAIN e.positions
    /\ LET dx == 10 * e.positions[proj.targetId].x - proj.x
           dy == 10 * e.positions[proj.targetId].y - proj.y
       IN  4 * (dx * dx + dy * dy) < 100

\* the calls of dealDamage in log that applied the damage of a shot of sourceId at targetId
ShotsApplied(log, sourceId, targetId) ==
    {k \in 1..Len(log) : /\ log[k].call = "dealDamage"
                         /\ log[k].attacker = sourceId
                         /\ log[k].target = targetId
                         /\ log[k].ok}

\* C29 as stated: a projectile is in the list only while it is younger than 5 seconds; a
\* tick applies the damage of a projectile exactly when the projectile has come within
\* 0.5 of its target's position and the target exists, and applies it once; the
\* projectile that applied its damage is in the list no more.
C29_Original ==
    [][game'.tick = game.tick + 1 =>
          /\ \A i \in 1..Len(combat'.projectiles) :
                combat'.projectiles[i].age < PROJECTILE_MAX_AGE * TICK_RATE
          /\ \A i \in 1..Len(combat.projectiles) :
                LET proj == combat.projectiles[i]
                    same == {j \in 1..Len(combat.projectiles) :
                                /\ combat.projectiles[j].sourceId = proj.sourceId
                                /\ combat.projectiles[j].targetId = proj.targetId
                                /\ Arrives(em, combat.projectiles[j])}
                IN  /\ Cardinality(ShotsApplied(hist'.calls, proj.sourceId, proj.targetId))
                           = Cardinality(same)
                    /\ Arrives(em, proj) =>
                           \A j \in 1..Len(combat'.projectiles) :
                               combat'.projectiles[j].sourceId # proj.sourceId]_vars

\* ---------------------------------------------------------------------
\* The start of a game, at tile scale: a position is kept as the tile it lies on (the
\* floor of its coordinates), which decides whether it is inside the map.  startGame
\* generates a square map of SpawnSide tiles for 2 players, on which the
\* generator has left forest at a start position or none, and spawns every player's Town
\* Center, villagers (3, or 6 for the Chinese) and scout.  Afterwards player 1 may garrison
\* a villager in the Town Center, ungarrison it, or send a villager off.  Distances between
\* entities are taken between their tiles.
\* ---------------------------------------------------------------------
MaxSpawnTicks == 4     \* ticks played after the start

SpawnSide == 20        \* mapWidth = mapHeight of the generated map

START_MARGIN_PERCENT == 15

START_RADIUS_PERCENT == 35

START_SEARCH_RINGS == 20

CLEAR_RADIUS == 10

\* (cos, sin) of angle = (i / numPlayers) * 2 * PI - PI / 2 for 2 players (the
\* odd-numbered directions) and for 4 players
StartDirection(i, numPlayers) ==
    LET dirs == <<[x |-> 0, y |-> -1], [x |-> 1, y |-> 0], [x |-> 0, y |-> 1],
                  [x |-> -1, y |-> 0]>>
    IN  dirs[(((4 \div numPlayers) * i) % 4) + 1]

\* generateStartPositions, position i: on the circle, clamped to the margins, then moved
\* to the first walkable and buildable tile in the order r, dy, dx
StartPosition(map, i, numPlayers) ==
    LET side   == Min(map.width, map.height)
        margin == (side * START_MARGIN_PERCENT) \div 100
        dir    == StartDirection(i, numPlayers)
        px == Max(margin, Min(map.width - margin,
                  (50 * map.width + dir.x * START_RADIUS_PERCENT * side) \div 100))
        py == Max(margin, Min(map.height - margin,
                  (50 * map.height + dir.y * START_RADIUS_PERCENT * side) \div 100))
        Ring(t) == Max(Abs(t[1] - px), Abs(t[2] - py))
        cand == {t \in DOMAIN map.tiles :
                    map.tiles[t].walkable /\ map.tiles[t].buildable
                        /\ Ring(t) < START_SEARCH_RINGS}
        Before(s, t) == \/ Ring(s) < Ring(t)
                        \/ Ring(s) = Ring(t) /\ s[2] < t[2]
                        \/ Ring(s) = Ring(t) /\ s[2] = t[2] /\ s[1] < t[1]
    IN  IF cand = {} THEN [x |-> px, y |-> py]
        ELSE LET t == CHOOSE t \in cand : \A s \in cand : s = t \/ Before(t, s)
             IN  [x |-> t[1], y |-> t[2]]

clearArea(map, cx, cy, radius) ==
    [map EXCEPT !.tiles = [t \in DOMAIN @ |->
        IF (t[1] - cx) * (t[1] - cx) + (t[2] - cy) * (t[2] - cy) <= radius * radius
        THEN [@[t] EXCEPT !.walkable = TRUE, !.buildable = TRUE]
        ELSE @[t]]]

\* generateStartPositions: [map |-> the map afterwards, positions |-> the positions]
RECURSIVE generateStartPositions(_, _, _, _)
generateStartPositions(map, numPlayers, i, positions) ==
    IF i >= numPlayers THEN [map |-> map, positions |-> positions]
    ELSE LET p == StartPosition(map, i, numPlayers)
         IN  generateStartPositions(clearArea(map, p.x, p.y, CLEAR_RADIUS), numPlayers,
                                    i + 1, Append(positions, p))

\* the tiles of spawn + (cos, sin)(i / villagerCount * 2 * PI) * 3: the floors of
\* 3, -1.5 and 1.5 (cos) and of 0, 2.598 and -2.598 (sin)
VillagerOffsets(villagerCount) ==
    IF villagerCount = 3
    THEN <<[x |-> 3, y |-> 0], [x |-> -2, y |-> 2], [x |-> -2, y |-> -3]>>
    ELSE <<[x |-> 3, y |-> 0], [x |-> 1, y |-> 2], [x |-> -2, y |-> 2],
           [x |-> -3, y |-> 0], [x |-> -2, y |-> -3], [x |-> 1, y |-> -3]>>

SCOUT_DX == 4

SCOUT_DY == 2

RECURSIVE SpawnVillagers(_, _, _, _)
SpawnVillagers(e, playerId, spawn, offsets) ==
    IF offsets = << >> THEN e
    ELSE SpawnVillagers(createUnit(e, UNITS.villager, playerId, spawn.x + Head(offsets).x,
                                   spawn.y + Head(offsets).y),
                        playerId, spawn, Tail(offsets))

\* spawnStartingUnits in Standard mode (no king), for the players from playerId on; the
\* scout has the sample data of the militia
RECURSIVE spawnStartingUnits(_, _, _, _)
spawnStartingUnits(e, spawnPoints, chinese, playerId) ==
    IF playerId > Len(spawnPoints) THEN e
    ELSE LET spawn == spawnPoints[playerId]
             tc == createBuilding(e, BUILDINGS.townCenter, playerId, spawn.x, spawn.y, FALSE)
             vs == SpawnVillagers(tc, playerId, spawn,
                                  VillagerOffsets(IF playerId \in chinese THEN 6 ELSE 3))
             sc == createUnit(vs, UNITS.militia, playerId, spawn.x + SCOUT_DX,
                              spawn.y + SCOUT_DY)
         IN  spawnStartingUnits(sc, spawnPoints, chinese, playerId + 1)

SpawnInit ==
    /\ em = EmInit
    /\ players = << >>
    /\ game = [tick |-> 0, phase |-> "menu", commandQueue |-> << >>, pc |-> "frame",
               map |-> Grid(1, 1, {})]
    /\ combat = NoCombat
    /\ twin = NoTwin
    /\ hist = << >>

\* what the terrain generator has left unwalkable around the second start position
\* (10, 17): nothing, the tile itself, or a clump of forest of 3 x 2 tiles
ForestClump == {<<9, 16>>, <<10, 16>>, <<11, 16>>, <<9, 17>>, <<10, 17>>, <<11, 17>>}

Forests == {{}, {<<10, 17>>}, ForestClump}

\* Game.startGame with mapWidth = mapHeight = SpawnSide and numPlayers = 2
StartGame ==
    \E walls \in Forests, chinese \in {{}, {1}} :
        /\ game.phase = "menu"
        /\ LET Started(g) ==
                   /\ game' = [game EXCEPT !.phase = "playing", !.map = g.map]
                   /\ em' = spawnStartingUnits(EmInit, g.positions, chinese, 1)
           IN  Started(generateStartPositions(Grid(SpawnSide, SpawnSide, walls),
                                              2, 0, << >>))
        /\ players' = [p \in 1..2 |-> NoPlayers[1]]
        /\ UNCHANGED <<combat, twin, hist>>

\* the Town Center of player 1 has id 1, its first villagers ids 2 and 3
SpawnBatches ==
    {<< >>,
     <<Command("garrison", 1, <<2>>, 1, Absent, None)>>,
     <<Command("ungarrison", 1, <<1>>, NoId, Absent, None)>>,
     <<Command("move", 1, <<3>>, NoId, Some([x |-> 9, y |-> 4]), None)>>}

\* one turn of gameLoop, with the commands that arrived since the last one
SpawnTick ==
    \E cmds \in SpawnBatches :
        /\ game.phase = "playing"
        /\ game.tick < MaxSpawnTicks
        /\ LET Becomes(w) ==
                   /\ em' = w.em
                   /\ players' = w.players
                   /\ game' = w.game
                   /\ combat' = w.combat
           IN  Becomes(gameLoopStep(World(em, players,
                                          [game EXCEPT !.commandQueue = cmds], combat)))
        /\ UNCHANGED <<twin, hist>>

SpawnNext == StartGame \/ SpawnTick

SpecSpawn == SpawnInit /\ [][SpawnNext]_vars

\* C25 as stated: every entity stands inside the map, 0 <= x < mapWidth and
\* 0 <= y < mapHeight, once the game has started.
C25_Original ==
    game.phase = "playing" =>
        \A id \in DOMAIN em.positions :
            /\ 0 <= em.positions[id].x /\ em.positions[id].x < game.map.width
            /\ 0 <= em.positions[id].y /\ em.positions[id].y < game.map.height

\* ---------------------------------------------------------------------
\* Spawning of trained units.  The 7 x 4 settlement with forest in its east: the Town
\* Centers of players 1 and 2 at (0, 0) and (0, 2) (ids 1 and 3), a villager of player 1
\* at (2, 3) (id 2), and a barracks (id 4) that player 1 has placed on walkable ground at
\* (2, 0) or at (4, 1) and that has been built, as has player 1's Town Center.  From
\* (2, 0) the barracks' default spawn offset is the tile (5, 3), which is open or forest;
\* from (4, 1) it is (7, 4), beyond the south-east corner of the map.  Player 1 orders
\* units while BuildingSystem.update runs.
\* ---------------------------------------------------------------------
MusterSites == {<<2, 0>>, <<4, 1>>}

MusterForests == {{}, {<<5, 3>>}, {<<5, 3>>, <<6, 3>>, <<5, 2>>, <<6, 2>>}}

Mustered(site, forest) ==
    LET e0 == createBuilding(createUnit(createBuilding(EmInit, BUILDINGS["townCenter"],
                                                       1, 0, 0, FALSE),
                                        UNITS["villager"], 1, 2, 3),
                             BUILDINGS["townCenter"], 2, 0, 2, FALSE)
        p0 == [NoPlayers EXCEPT ![1].resources.wood = BUILDINGS["barracks"].cost.wood]
        g0 == [tick |-> 0, phase |-> "playing", commandQueue |-> << >>, pc |-> "frame",
               map |-> Grid(7, 4, forest), marketRates |-> << >>]
    IN  placeBuilding(World(e0, p0, g0, NoCombat), "barracks", site[1], site[2], 1)

MusterInit ==
    /\ combat = NoCombat
    /\ twin = NoTwin
    /\ hist = [requests |-> 0, accepted |-> [b \in TrainingBuildings |-> << >>]]
    /\ \E site \in MusterSites, forest \in MusterForests :
          LET Settled(r) ==
                  /\ r.id = 4
                  /\ em = Constructed(Constructed(r.w.em, 1), 4)
                  /\ players = [r.w.players EXCEPT ![1].resources.food = 5]
                  /\ game = r.w.game
          IN  Settled(Mustered(site, forest))

SpecMuster == MusterInit /\ [][TrainingNext]_vars

\* the distance the search of findSpawnPosition counts in: the ring of tile t around (x, y)
SpawnRing(t, x, y) == Max(Abs(t[1] - x), Abs(t[2] - y))

\* unit id stands on a walkable tile of the map, and no walkable tile of the map is on a
\* nearer ring around the default spawn offset of building b
SpawnedBy(e, map, id, b) ==
    LET at == <<e.positions[id].x, e.positions[id].y>>
        ox == e.positions[b].x + e.buildings[b].data.size.x
        oy == e.positions[b].y + e.buildings[b].data.size.y
    IN  /\ InMap(map, at[1], at[2])
        /\ map.tiles[at].walkable
        /\ \A t \in DOMAIN map.tiles :
              map.tiles[t].walkable => SpawnRing(at, ox, oy) <= SpawnRing(t, ox, oy)

MaxChaseOrders == 2    \* orders given to the villager

\* the position of tile corner (tx, ty) plus (off, off) steps
ChasePos(tx, ty, off) ==
    [x |-> tx * StepsPerTile + off, y |-> ty * StepsPerTile + off,
     prevX |-> tx * StepsPerTile + off, prevY |-> ty * StepsPerTile + off]

ChaseStore(tx, complete, hp) ==
    LET e == createResource(
                 createBuilding(
                     createBuilding(createUnit(EmInit, UNITS["villager"], 1, tx, 0),
                                    BUILDINGS["house"], 1, 3, 0, complete),
                     BUILDINGS["house"], 2, 6, 0, TRUE),
                 "food", 2, 5, 0)
    IN  [e EXCEPT !.positions = [id \in DOMAIN @ |->
                                    ChasePos(@[id].x, @[id].y,
                                             IF id = 1 THEN StepsPerTile \div 2 ELSE 0)],
                  !.health[2].hp = hp]

ChaseInit ==
    /\ \E tx \in {0, 1}, complete \in BOOLEAN, hp \in {0, 17} :
          em = ChaseStore(tx, complete, hp)
    /\ players = NoPlayers
    /\ game = [tick |-> 0, phase |-> "playing", commandQueue |-> << >>, pc |-> "frame",
               map |-> Grid(7, 2, {}), posUnit |-> StepsPerTile]
    /\ combat = NoCombat
    /\ twin = NoTwin
    /\ hist = [orders |-> 0, state |-> None, targetId |-> NoId, beat |-> 0]

ChaseBecomes(w) ==
    /\ em' = w.em
    /\ players' = w.players
    /\ game' = w.game
    /\ combat' = w.combat
    /\ UNCHANGED twin

\* Game.executeCommand of an Attack, Gather or Repair command for the villager
ChaseOrder ==
    \E order \in {[state |-> "attacking", cmd |-> Command("attack", 1, <<1>>, 3, Absent, None)],
                  [state |-> "gathering", cmd |-> Command("gather", 1, <<1>>, 4, Absent, None)],
                  [state |-> "repairing", cmd |-> Command("repair", 1, <<1>>, 2, Absent, None)]} :
        /\ hist.orders < MaxChaseOrders
        /\ ChaseBecomes(executeCommand(World(em, players, game, combat), order.cmd))
        /\ hist' = [hist EXCEPT !.orders = @ + 1, !.state = order.state,
                                !.targetId = order.cmd.targetId]

\* UnitSystem.buildStructure(1, 2)
ChaseBuildStructure ==
    /\ hist.orders < MaxChaseOrders
    /\ ChaseBecomes(buildStructure(World(em, players, game, combat), 1, 2))
    /\ hist' = [hist EXCEPT !.orders = @ + 1, !.state = "building", !.targetId = 2]

\* UnitSystem.update(dt), which Game.update runs in every tick of a game that is playing
ChaseUpdate ==
    /\ ChaseBecomes(unitSystemUpdate(World(em, players, game, combat)))
    /\ hist' = [hist EXCEPT !.beat = 1 - @]

ChaseNext == ChaseOrder \/ ChaseBuildStructure \/ ChaseUpdate

\* a step of ChaseUpdate as hist shows it: beat flips and nothing else of hist changes
ChaseBeat == hist' = [hist EXCEPT !.beat = 1 - @]

\* gameLoop runs UnitSystem.update in every frame.  ChaseUpdate is always enabled, and a
\* step of ChaseNext is a step of ChaseBeat exactly if it is a step of ChaseUpdate: weak
\* fairness of ChaseBeat on hist is weak fairness of ChaseUpdate
SpecChase == ChaseInit /\ [][ChaseNext]_vars /\ WF_hist(ChaseBeat)

\* the working range of a state for a unit of the given data, in tenths of a tile
WorkRangeTenths(state, data) ==
    CASE state = "attacking" -> 10 * Max(data.range, 1) + 5
      [] state = "gathering" -> GATHER_RANGE_TENTHS
      [] state \in {"building", "repairing"} -> BUILD_RANGE_TENTHS

\* the villager has been ordered to work on a target and stands farther from it than
\* the working range of the state the order put it in
OutOfWorkRange ==
    /\ hist.state # None
    /\ FartherThan(em.positions[hist.targetId].x - em.positions[1].x,
                   em.positions[hist.targetId].y - em.positions[1].y,
                   WorkRangeTenths(hist.state, em.units[1].data), StepsPerTile)

\* C32 as stated: a unit ordered to attack, gather at, build or repair a stationary,
\* reachable target that is farther away than the working range of the state comes
\* within that range in the end (unless another order sends it to a target in range): it
\* does not stay where it is for ever.
C32_Original == OutOfWorkRange ~> ~OutOfWorkRange

\* ---------------------------------------------------------------------
\* Gathering of two kinds, on an open 3 x 2 map.  A villager of player 1 (id 1) stands
\* at (1, 1) between the player's Town Center (id 2, at (2, 1), a drop-off for food and
\* wood), a tree (id 3, at (0, 1)) and berries (id 4, at (1, 0)), all within the gather
\* and drop-off ranges; tree and berries hold NODE_AMOUNT units each.  The villager comes
\* with a load of wood it has cut before (hist.carried units; it is rested, its gather
\* cooldown has run out) and is sent to the tree or to the berries by Gather commands.
\* ---------------------------------------------------------------------
MaxHarvestTicks == 5    \* ticks of a gathering session

NODE_AMOUNT == 2

HarvestStore(carry) ==
    LET e == createResource(createResource(createBuilding(
                 createUnit(EmInit, UNITS.villager, 1, 1, 1),
                 DropoffData, 1, 2, 1, TRUE), "wood", NODE_AMOUNT, 0, 1),
                 "food", NODE_AMOUNT, 1, 0)
    IN  [e EXCEPT !.units[1].carryAmount = carry,
                  !.units[1].carryType = IF carry > 0 THEN "wood" ELSE None]

HarvestInit ==
    \E carry \in {0, 3, CARRY_CAPACITY - 1, CARRY_CAPACITY} :
        /\ em = HarvestStore(carry)
        /\ players = NoPlayers
        /\ game = [tick |-> 0, phase |-> "playing", commandQueue |-> << >>, pc |-> "frame",
                   map |-> Grid(3, 2, {})]
        /\ combat = NoCombat
        /\ twin = NoTwin
        /\ hist = [carried |-> carry]

\* one turn of gameLoop, with the Gather command that arrived since the last one, if any
HarvestTick ==
    \E cmds \in {<< >>, <<Command("gather", 1, <<1>>, 3, Absent, None)>>,
                 <<Command("gather", 1, <<1>>, 4, Absent, None)>>} :
        /\ game.tick < MaxHarvestTicks
        /\ FarmBecomes(gameLoopStep(World(em, players,
                                          [game EXCEPT !.commandQueue = cmds], combat)))
        /\ UNCHANGED hist

SpecHarvest == HarvestInit /\ [][HarvestTick]_vars

\* the amount of kind K that the villager has taken from the nodes of that kind: what
\* it came with, and what the nodes have lost since (a node that is used up is removed)
TakenFromNodes(K) ==
    LET Lost(id) == NODE_AMOUNT - (IF id \in DOMAIN em.resources THEN em.resources[id].amount
                                   ELSE 0)
    IN  IF K = "wood" THEN hist.carried + Lost(3) ELSE Lost(4)

\* the amount of kind K credited to player 1 since the start, plus the villager's load
\* if it is of kind K
CreditedOrCarried(K) ==
    (players[1].resources[K] - NoPlayers[1].resources[K])
    + (IF em.units[1].carryType = K THEN em.units[1].carryAmount ELSE 0)

\* C33 as stated: for food and for wood, what player 1 was credited with plus what the
\* villager carries of the kind is at most what the villager has taken from the nodes of
\* that kind, and the villager never carries more than 10.
C33_Original ==
    /\ \A K \in {"food", "wood"} : CreditedOrCarried(K) <= TakenFromNodes(K)
    /\ em.units[1].carryAmount <= CARRY_CAPACITY

\* ---------------------------------------------------------------------
\* Research at two barracks.  Player 1 has a Town Center (id 1) and two barracks (ids 2
\* and 3), player 2 has a barracks (id 4); all are built and each barracks researches
\* forging.  The first barracks is idle or has been researching forging for all but two
\* steps of the research time.  Every tick executes the Research command that arrived
\* since the last one, if any.  hist.applied[p] counts the runs of applyTechEffects(p,
\* forging): one for every research queue of player p that a tick has emptied.
\* ---------------------------------------------------------------------
MaxResearchTicks == 4    \* ticks of a session of research

ResearchSteps == RESEARCH_TIME * 1000 * TICK_RATE

ResearchStore(started) ==
    LET e == createBuilding(createBuilding(createBuilding(createBuilding(EmInit,
                 BUILDINGS["townCenter"], 1, 0, 0, TRUE),
                 BUILDINGS["barracks"], 1, 2, 0, TRUE),
                 BUILDINGS["barracks"], 1, 5, 0, TRUE),
                 BUILDINGS["barracks"], 2, 2, 3, TRUE)
    IN  IF started
        THEN [e EXCEPT !.buildings[2].researchQueue =
                           <<[techId |-> "forging", progress |-> ResearchSteps - 2,
                              totalTime |-> ResearchSteps]>>]
        ELSE e

ResearchInit ==
    /\ \E started \in BOOLEAN : em = ResearchStore(started)
    /\ players = NoPlayers
    /\ game = [tick |-> 0, phase |-> "playing", commandQueue |-> << >>, pc |-> "frame",
               map |-> Grid(8, 6, {})]
    /\ combat = NoCombat
    /\ twin = NoTwin
    /\ hist = [applied |-> [p \in Owners |-> 0]]

\* one turn of gameLoop, with the Research command that arrived since the last one, if any
ResearchTick ==
    \E cmds \in {<< >>} \cup {<<Command("research", getOwner(em, b), <<b>>, NoId, Absent,
                                        "forging")>> : b \in 1..4} :
        /\ game.tick < MaxResearchTicks
        /\ FarmBecomes(gameLoopStep(World(em, players,
                                          [game EXCEPT !.commandQueue = cmds], combat)))
        /\ hist' = [applied |-> [p \in Owners |->
                        hist.applied[p]
                        + Cardinality({b \in DOMAIN em.buildings :
                                          /\ getOwner(em, b) = p
                                          /\ em.buildings[b].researchQueue # << >>
                                          /\ em'.buildings[b].researchQueue = << >>})]]

SpecResearch == ResearchInit /\ [][ResearchTick]_vars

\* the technologies in progress for player p: those in the research queues of p's buildings
InProgress(e, p) ==
    UNION {{e.buildings[b].researchQueue[i].techId : i \in 1..Len(e.buildings[b].researchQueue)} :
              b \in {c \in DOMAIN e.buildings : getOwner(e, c) = p}}

\* C34 as stated: applyTechEffects runs at most once per player and technology, and a
\* step that accepts a technology into the research queue of one of a player's buildings
\* starts from a state in which the player had neither researched it nor had it in
\* progress in any queue.
C34_Original ==
    /\ [](\A p \in Owners : hist.applied[p] <= 1)
    /\ [][\A b \in DOMAIN em.buildings :
             Len(em'.buildings[b].researchQueue) > Len(em.buildings[b].researchQueue) =>
                 LET techId == em'.buildings[b].researchQueue[1].techId
                     p == getOwner(em, b)
                 IN  /\ techId \notin players[p].researchedTechs
                     /\ techId \notin InProgress(em, p)]_vars

\* ---------------------------------------------------------------------
\* Claims about the population (checked under SpecMuster, where no building is lost:
\* player 1 has the population 1 and the cap 2 of its built Town Center)
\* ---------------------------------------------------------------------
\* C35 as stated: the population of every player, the sum of the population costs of
\* the units the player owns, is at most the player's population cap.
C35_Original == \A p \in Owners : getPopulation(em, p) <= getPopulationCap(em, p)

\* ---------------------------------------------------------------------
\* Garrisons on an open 5 x 3 map.  Player 1 has a built Town Center with room for two
\* (id 1, at (0, 0)), a built barracks with room for one (id 2, at (2, 0)) and two
\* villagers (ids 3 and 4) beside them.  Every tick executes the command that arrived
\* since the last one, if any: a villager is garrisoned in a building, a building is
\* emptied, or the first villager is sent to the east.
\* ---------------------------------------------------------------------
MaxGarrisonTicks == 3    \* ticks of a session at the garrisons

GarrisonStore ==
    createUnit(createUnit(createBuilding(createBuilding(EmInit,
        [BUILDINGS["townCenter"] EXCEPT !.garrisonCapacity = 2], 1, 0, 0, TRUE),
        BUILDINGS["barracks"], 1, 2, 0, TRUE),
        UNITS["villager"], 1, 0, 2), UNITS["villager"], 1, 1, 2)

GarrisonBatches ==
    {<< >>, <<Command("move", 1, <<3>>, NoId, Some([x |-> 4, y |-> 2]), None)>>}
    \cup {<<Command("garrison", 1, <<u>>, b, Absent, None)>> : u \in {3, 4}, b \in {1, 2}}
    \cup {<<Command("ungarrison", 1, <<b>>, NoId, Absent, None)>> : b \in {1, 2}}

GarrisonInit ==
    /\ em = GarrisonStore
    /\ players = NoPlayers
    /\ game = [tick |-> 0, phase |-> "playing", commandQueue |-> << >>, pc |-> "frame",
               map |-> Grid(5, 3, {})]
    /\ combat = NoCombat
    /\ twin = NoTwin
    /\ hist = << >>

\* one turn of gameLoop, with the command that arrived since the last one, if any
GarrisonTick ==
    \E cmds \in GarrisonBatches :
        /\ game.tick < MaxGarrisonTicks
        /\ FarmBecomes(gameLoopStep(World(em, players,
                                          [game EXCEPT !.commandQueue = cmds], combat)))
        /\ UNCHANGED hist

SpecGarrison == GarrisonInit /\ [][GarrisonTick]_vars

\* the number of times id occurs in the sequence s
Occurrences(s, id) == Cardinality({i \in 1..Len(s) : s[i] = id})

\* C36 as stated: a unit's garrisonedIn is building b exactly when the unit's id is in
\* b's garrisonedUnits, the unit is then in the garrisoned state, no id occurs twice in
\* a list or in the lists of two buildings, and no list is longer than the building's
\* garrison capacity.
C36_Original ==
    /\ \A u \in DOMAIN em.units, b \in DOMAIN em.buildings :
          (em.units[u].garrisonedIn = b) <=> Occurrences(em.buildings[b].garrisonedUnits, u) > 0
    /\ \A u \in DOMAIN em.units :
          em.units[u].garrisonedIn # NoId => em.units[u].state = "garrisoned"
    /\ \A u \in DOMAIN em.entities :
          SumOver([b \in DOMAIN em.buildings |->
                      Occurrences(em.buildings[b].garrisonedUnits, u)],
                  DOMAIN em.buildings) <= 1
    /\ \A b \in DOMAIN em.buildings :
          Len(em.buildings[b].garrisonedUnits) <= em.buildings[b].data.garrisonCapacity

\* ---------------------------------------------------------------------
\* Pausing the loop.  The villager of the march (id 1, on the corridor of 4 x 1 tiles, in
\* steps of 1 / StepsPerTile of a tile) is ordered about while the player pauses and
\* resumes the game; gameLoop keeps taking its turns of TICK_INTERVAL all the while.
\* game.timeElapsed counts the elapsed game time in turns of TICK_INTERVAL / 1000 seconds.
\* ---------------------------------------------------------------------
MaxPauseFrames == 4    \* turns of gameLoop in a session with pauses

\* hist.orders: the orders given so far
PauseInit ==
    /\ \E tx \in {0, 1} : em = MarchStore(tx)
    /\ players = NoPlayers
    /\ game = [tick |-> 0, timeElapsed |-> 0, phase |-> "playing", commandQueue |-> << >>,
               pc |-> "frame", map |-> MarchMap, posUnit |-> StepsPerTile]
    /\ combat = NoCombat
    /\ twin = NoTwin
    /\ hist = [orders |-> 0]

\* Game.issueCommand of a local game: the command waits in the queue
PauseOrder ==
    \E target \in MarchTargets :
        /\ hist.orders < MaxMarchOrders
        /\ game.commandQueue = << >>
        /\ game' = [game EXCEPT !.commandQueue =
                        <<[Command("move", 1, <<1>>, NoId, Some(target), None)
                              EXCEPT !.tick = game.tick]>>]
        /\ hist' = [hist EXCEPT !.orders = @ + 1]
        /\ UNCHANGED <<em, players, combat, twin>>

\* Game.pause
pause ==
    /\ game.phase = "playing"
    /\ game' = [game EXCEPT !.phase = "paused"]
    /\ UNCHANGED <<em, players, combat, twin, hist>>

\* Game.resume
resume ==
    /\ game.phase = "paused"
    /\ game' = [game EXCEPT !.phase = "playing"]
    /\ UNCHANGED <<em, players, combat, twin, hist>>

\* one turn of the while loop of gameLoop: update, tick++, timeElapsed += TICK_INTERVAL / 1000
gameLoop ==
    /\ game.tick < MaxPauseFrames
    /\ LET Becomes(w) ==
               /\ em' = w.em
               /\ players' = w.players
               /\ game' = [w.game EXCEPT !.timeElapsed = @ + 1]
               /\ combat' = w.combat
       IN  Becomes(gameLoopStep(World(em, players, game, combat)))
    /\ UNCHANGED <<twin, hist>>

PauseNext == PauseOrder \/ pause \/ resume \/ gameLoop

SpecPause == PauseInit /\ [][PauseNext]_vars

\* C37 as stated: while the game is paused nothing in the simulation advances: a step
\* that starts and ends in the Paused phase applies no queued command, changes no entity
\* and no player state, and leaves the tick counter and the elapsed game time at the
\* values they had when the pause began.
C37_Original ==
    [][(game.phase = "paused" /\ game'.phase = "paused")
       => /\ em' = em
          /\ players' = players
          /\ combat' = combat
          /\ Len(game'.commandQueue) >= Len(game.commandQueue)
          /\ game'.tick = game.tick
          /\ game'.timeElapsed = game.timeElapsed]_vars

\* what does hold during a pause: no command is applied, no entity and no player changes
C37_PausedWorldStands ==
    [][(game.phase = "paused" /\ game'.phase = "paused")
       => /\ em' = em
          /\ players' = players
          /\ combat' = combat
          /\ Len(game'.commandQueue) >= Len(game.commandQueue)]_vars

\* ---------------------------------------------------------------------
\* The game server.  Two connected clients (ClientConnection, ids 1 and 2) create, join
\* and leave rooms, start games, send their commands and disconnect, while the server's
\* interval timer runs RoomManager.tick.  The server is the record `game':
\*   rooms  the GameRoom objects by room number: those of RoomManager.rooms and those
\*          a client still holds (an object nothing refers to is gone)
\*   live   the room numbers in RoomManager.rooms
\*   nextRoomId  the counter of the room numbers
\*   room   ClientConnection._room of every client (NoId for null)
\*   open   the clients whose connection has not been disposed of
\*   inbox  the GameCommand messages every client was sent, in order (messages of the
\*          other types are not kept; `room' in a kept message says which room sent it)
\* A room's `players' lists the keys of its players Map in insertion order, and
\* commandsThisTick[c] is the buffer of the RoomPlayer of client c.
\* ---------------------------------------------------------------------
MaxRooms == 2           \* rooms created in a session

MaxRoomTicks == 4       \* ticks of a started room

MaxRoomCommands == 2    \* GameCommand messages the clients send in a session

turnLength == 2

RoomClients == {1, 2}

\* options.maxPlayers of the CreateLobby messages
RoomSizes == {0, 1, 2}

\* ClientConnection.send, for a connection that is open
send(srv, c, msg) ==
    IF c \in srv.open /\ msg.type = "GameCommand"
    THEN [srv EXCEPT !.inbox[c] = Append(@, msg)]
    ELSE srv

RECURSIVE SendEach(_, _, _, _)
SendEach(srv, ids, msg, excludeId) ==
    IF ids = << >> THEN srv
    ELSE SendEach(IF Head(ids) # excludeId THEN send(srv, Head(ids), msg) ELSE srv,
                  Tail(ids), msg, excludeId)

\* GameRoom.broadcast
broadcast(srv, r, msg, excludeId) == SendEach(srv, srv.rooms[r].players, msg, excludeId)

\* GameRoom.addPlayer: the server afterwards, and the value returned
addPlayer(srv, r, c) ==
    LET rm == srv.rooms[r] IN
    IF rm.started \/ Len(rm.players) >= rm.maxPlayers
    THEN [srv |-> srv, ok |-> FALSE]
    ELSE LET s1 == [srv EXCEPT !.rooms[r].players = Append(@, c),
                               !.rooms[r].commandsThisTick[c] = << >>,
                               !.room[c] = r]
         IN  [srv |-> broadcast(s1, r, [type |-> "PlayerJoined", playerId |-> c], c),
              ok |-> TRUE]

\* GameRoom.removePlayer
removePlayer(srv, r, playerId) ==
    LET rm == srv.rooms[r] IN
    IF \A i \in DOMAIN rm.players : rm.players[i] # playerId THEN srv
    ELSE LET rest == SelectSeq(rm.players, LAMBDA q : q # playerId)
             s1 == [srv EXCEPT !.room[playerId] = NoId,
                               !.rooms[r].players = rest,
                               !.rooms[r].commandsThisTick[playerId] = << >>]
             s2 == broadcast(s1, r, [type |-> "PlayerLeft", playerId |-> playerId], NoId)
         IN  IF playerId = rm.host /\ Len(rest) > 0
             THEN broadcast([s2 EXCEPT !.rooms[r].host = rest[1]], r,
                            [type |-> "ChatMessage", playerId |-> rest[1]], NoId)
             ELSE s2

\* GameRoom.startGame
startGame(srv, r) ==
    IF srv.rooms[r].started THEN srv
    ELSE broadcast([srv EXCEPT !.rooms[r].started = TRUE, !.rooms[r].tick_count = 0],
                   r, [type |-> "StartGame"], NoId)

\* GameRoom.enqueueCommands
enqueueCommands(srv, r, playerId, commands) ==
    LET rm == srv.rooms[r] IN
    IF ~rm.started THEN srv
    ELSE IF \A i \in DOMAIN rm.players : rm.players[i] # playerId THEN srv
    ELSE [srv EXCEPT !.rooms[r].commandsThisTick[playerId] = @ \o commands]

\* the loop of GameRoom.tick over the players: allCommands.push(...commandsThisTick)
RECURSIVE AllCommands(_, _)
AllCommands(rm, ids) ==
    IF ids = << >> THEN << >>
    ELSE rm.commandsThisTick[Head(ids)] \o AllCommands(rm, Tail(ids))

\* GameRoom.tick
tick(srv, r) ==
    LET rm == srv.rooms[r] IN
    IF ~rm.started THEN srv
    ELSE LET count == rm.tick_count + 1
             s1 == [srv EXCEPT !.rooms[r].tick_count = count]
         IN  IF count % turnLength = 0
             THEN broadcast([s1 EXCEPT !.rooms[r].commandsThisTick =
                                           [c \in RoomClients |-> << >>]],
                            r,
                            [type |-> "GameCommand", room |-> r, tick |-> count,
                             commands |-> AllCommands(rm, rm.players)],
                            NoId)
             ELSE s1

\* the body of the loop of RoomManager.tick for the rooms numbered r and up
RECURSIVE TickRooms(_, _)
TickRooms(srv, r) ==
    IF r >= srv.nextRoomId THEN srv
    ELSE IF r \notin srv.live THEN TickRooms(srv, r + 1)
    ELSE LET s1 == IF srv.rooms[r].started THEN tick(srv, r) ELSE srv
             s2 == IF Len(s1.rooms[r].players) = 0
                   THEN [s1 EXCEPT !.live = @ \ {r}]
                   ELSE s1
         IN  TickRooms(s2, r + 1)

\* ClientConnection.handleLeaveRoom
LeaveRoom(srv, c) ==
    IF srv.room[c] # NoId
    THEN [removePlayer(srv, srv.room[c], c) EXCEPT !.room[c] = NoId]
    ELSE srv

\* a GameRoom as its constructor leaves it before it adds the host
NewRoom(host, maxPlayers) ==
    [players |-> << >>, host |-> host, started |-> FALSE, tick_count |-> 0,
     maxPlayers |-> maxPlayers, commandsThisTick |-> [c \in RoomClients |-> << >>]]

\* RoomManager.createRoom with the constructor of GameRoom
createRoom(srv, host, maxPlayers) ==
    LET r == srv.nextRoomId
        s1 == [srv EXCEPT !.nextRoomId = r + 1,
                          !.rooms = [x \in DOMAIN @ \cup {r} |->
                                        IF x = r THEN NewRoom(host, maxPlayers) ELSE @[x]]]
    IN  [addPlayer(s1, r, host).srv EXCEPT !.live = @ \cup {r}]

\* the server without the GameRoom objects that nothing refers to any more
Collected(srv) ==
    [srv EXCEPT !.rooms = [r \in srv.live \cup ({srv.room[c] : c \in RoomClients} \ {NoId})
                              |-> @[r]]]

\* hist.sent:     the GameCommand messages handled so far; message k carries command k
\* hist.commands: for every such message the room it went to, whether enqueueCommands
\*                took it, and whether the room was started and its tick_count then
\* hist.starts:   for every call of startGame that started a game, the room, the client
\*                who sent the StartGame message and the host of the room at that time
RoomInit ==
    /\ em = EmInit
    /\ players = NoPlayers
    /\ game = [rooms |-> << >>, live |-> {}, nextRoomId |-> 1, room |-> [c \in RoomClients |-> NoId],
               open |-> RoomClients, inbox |-> [c \in RoomClients |-> << >>]]
    /\ combat = NoCombat
    /\ twin = NoTwin
    /\ hist = [sent |-> 0, commands |-> << >>, starts |-> << >>]

\* ClientConnection.handleCreateRoom
handleCreateRoom ==
    \E c \in game.open, maxPlayers \in RoomSizes :
        /\ game.nextRoomId <= MaxRooms
        /\ LET s1 == createRoom(LeaveRoom(game, c), c, maxPlayers) IN
           game' = Collected([s1 EXCEPT !.room[c] = game.nextRoomId])
        /\ UNCHANGED <<em, players, combat, twin, hist>>

\* ClientConnection.handleJoinRoom
handleJoinRoom ==
    \E c \in game.open, roomId \in 1..MaxRooms :
        /\ LET s1 == LeaveRoom(game, c) IN
           IF roomId \notin s1.live THEN game' = Collected(s1)
           ELSE LET res == addPlayer(s1, roomId, c) IN
                IF ~res.ok THEN game' = Collected(res.srv)
                ELSE game' = Collected([res.srv EXCEPT !.room[c] = roomId])
        /\ game' # game
        /\ UNCHANGED <<em, players, combat, twin, hist>>

\* ClientConnection.handleLeaveRoom
handleLeaveRoom ==
    \E c \in game.open :
        /\ game.room[c] # NoId
        /\ game' = Collected(LeaveRoom(game, c))
        /\ UNCHANGED <<em, players, combat, twin, hist>>

\* ClientConnection.handleMessage on a StartGame message
HandleStartGame ==
    \E c \in game.open :
        /\ game.room[c] # NoId
        /\ game.rooms[game.room[c]].host = c
        /\ game' = startGame(game, game.room[c])
        /\ game' # game
        /\ hist' = [hist EXCEPT !.starts =
                        Append(@, [room |-> game.room[c], by |-> c,
                                   host |-> game.rooms[game.room[c]].host])]
        /\ UNCHANGED <<em, players, combat, twin>>

\* ClientConnection.handleMessage on a GameCommand message with one command
HandleGameCommand ==
    \E c \in game.open :
        /\ hist.sent < MaxRoomCommands
        /\ game.room[c] # NoId
        /\ LET r == game.room[c]
               s1 == enqueueCommands(game, r, c, <<hist.sent + 1>>)
           IN  /\ game' = s1
               /\ hist' = [hist EXCEPT !.sent = @ + 1,
                                       !.commands = Append(@,
                                           [room |-> r, accepted |-> s1 # game,
                                            started |-> game.rooms[r].started,
                                            tick |-> game.rooms[r].tick_count])]
        /\ UNCHANGED <<em, players, combat, twin>>

\* ClientConnection.dispose: the connection was closed
dispose ==
    \E c \in game.open :
        /\ game' = Collected([LeaveRoom(game, c) EXCEPT !.open = @ \ {c}])
        /\ UNCHANGED <<em, players, combat, twin, hist>>

\* RoomManager.tick, run by the interval timer of the server
RoomManagerTick ==
    /\ \A r \in game.live : game.rooms[r].tick_count < MaxRoomTicks
    /\ game' = Collected(TickRooms(game, 1))
    /\ game' # game
    /\ UNCHANGED <<em, players, combat, twin, hist>>

RoomNext ==
    \/ handleCreateRoom \/ handleJoinRoom \/ handleLeaveRoom \/ HandleStartGame
    \/ HandleGameCommand \/ dispose \/ RoomManagerTick

SpecRoom == RoomInit /\ [][RoomNext]_vars

\* the GameCommand messages the clients were sent
Broadcasts == UNION {{game.inbox[c][i] : i \in DOMAIN game.inbox[c]} : c \in RoomClients}

\* the broadcasts that carry command k
BroadcastsOf(k) ==
    {m \in Broadcasts : \E i \in DOMAIN m.commands : m.commands[i] = k}

\* the first multiple of turnLength after tick count t
NextTurn(t) == t + turnLength - (t % turnLength)

\* every command enqueueCommands took is in at most one broadcast, and once its room has
\* reached the next turn it is in the broadcast of that turn, once
BroadcastOnce ==
    \A k \in DOMAIN hist.commands :
        LET sent == hist.commands[k] IN
        sent.accepted
        => /\ Cardinality(BroadcastsOf(k)) <= 1
           /\ \A m \in BroadcastsOf(k) :
                 /\ m.room = sent.room
                 /\ m.tick = NextTurn(sent.tick)
                 /\ Cardinality({i \in DOMAIN m.commands : m.commands[i] = k}) = 1
           /\ (/\ sent.room \in DOMAIN game.rooms
               /\ game.rooms[sent.room].tick_count >= NextTurn(sent.tick))
              => BroadcastsOf(k) # {}

\* the players of a room were sent the same broadcasts of the room, in the same order
SameBroadcasts ==
    \A r \in DOMAIN game.rooms :
        \A i, j \in DOMAIN game.rooms[r].players :
            SelectSeq(game.inbox[game.rooms[r].players[i]], LAMBDA m : m.room = r)
            = SelectSeq(game.inbox[game.rooms[r].players[j]], LAMBDA m : m.room = r)

\* a command that came before the game had started was not taken and is in no broadcast
EarlyDiscarded ==
    \A k \in DOMAIN hist.commands :
        ~hist.commands[k].started
        => ~hist.commands[k].accepted /\ BroadcastsOf(k) = {}

\* C38 as stated: in a started room every command accepted by enqueueCommands is
\* included in exactly one GameCommand broadcast, the one of the next tick that is a
\* multiple of turnLength; every player in the room receives the same command lists in
\* the same order; commands received before the game has started are discarded.
C38_Original == BroadcastOnce /\ SameBroadcasts /\ EarlyDiscarded

\* a room never holds more players than options.maxPlayers
RoomWithinMax ==
    \A r \in DOMAIN game.rooms :
        Len(game.rooms[r].players) <= game.rooms[r].maxPlayers

\* no step adds a player to a room whose game has started
NoLateJoin ==
    \A r \in DOMAIN game.rooms \cap DOMAIN game'.rooms :
        game.rooms[r].started
        => \A i \in DOMAIN game'.rooms[r].players :
               \E j \in DOMAIN game.rooms[r].players :
                   game.rooms[r].players[j] = game'.rooms[r].players[i]

\* every game was started by the client who was the host of the room at that time
StartedByHost ==
    \A i \in DOMAIN hist.starts : hist.starts[i].by = hist.starts[i].host

\* the host of a room that has players is one of them
HostInRoom ==
    \A r \in DOMAIN game.rooms :
        game.rooms[r].players # << >>
        => \E i \in DOMAIN game.rooms[r].players :
               game.rooms[r].players[i] = game.rooms[r].host

\* C39 as stated: for every room and any interleaving of join, leave, disconnect and
\* start messages, the number of players never exceeds maxPlayers, no player is added
\* after the game has started, only the current host can start the game, and whenever
\* the room has at least one player its host is one of the players in the room.
C39_Original ==
    /\ [](RoomWithinMax /\ StartedByHost /\ HostInRoom)
    /\ [][NoLateJoin]_vars

====
